---- MODULE Spec2Model ----
(***************************************************************************)
(* The prediction pipeline of the powergrid backend.                       *)
(*                                                                         *)
(* MLService (services/ml_service.py) is the model registry and the        *)
(* inference engine; PredictionService (services/prediction_service.py)    *)
(* normalises a request, calls MLService.predict and formats the response. *)
(*                                                                         *)
(* Conventions of the model:                                               *)
(*  - a Python dict is a function whose DOMAIN is the dict's key set;      *)
(*  - a fitted estimator, encoder or scaler is the number of the training  *)
(*    call that fitted it (its generation); what an estimator returns for  *)
(*    an input is an input of the action, drawn from PredVals;             *)
(*  - an exception is an outcome "raised" of the call;                     *)
(*  - MLService takes no lock, so a training call is a sequence of steps   *)
(*    (one per statement that writes the registry) which calls of other    *)
(*    threads interleave with.                                             *)
(***************************************************************************)
EXTENDS Integers, Sequences, FiniteSets, TLC

\* ---------------------------------------------------------------- bounds

\* Training calls (train_models, retrain_model, load_models' training
\* fallback) in one behaviour; each fits generation ntrain + 1.
MaxTrain == 2

\* ------------------------------------------------------- names of the code

\* MLService.model_configs, in insertion order.
ModelConfigs == <<"cost_overrun", "delay_prediction", "cost_prediction", "timeline_prediction">>

ModelConfigNames == {ModelConfigs[i] : i \in 1..Len(ModelConfigs)}

\* pipeline_files in load_production_pipelines.
PipelineNames == {"cost_prediction", "overrun_prediction", "timeline_prediction"}

\* categorical_columns of prepare_features, in order.
CategoricalColumns == <<"Project_Type", "Terrain", "Demand_Supply_Pressure">>

\* feature_columns as prepare_features sets it.
FeatureColumns ==
    <<"Project_Type", "Terrain", "Base_Cost_Cr", "Steel_Price_Index", "Cement_Price_Index",
      "Labour_Wage_RsPerDay", "Regulatory_Delay_months", "Historical_Delay_Count",
      "Avg_Annual_Rainfall_cm", "Vendor_Reliability", "Material_Availability_Index",
      "Demand_Supply_Pressure", "Skilled_Manpower_pct", "Planned_Timeline_months",
      "Cost_per_Month", "Wage_Cost_Ratio", "Price_Volatility", "Resource_Risk",
      "Terrain_Risk_Score", "Project_Complexity">>

\* ------------------------------------------------------------ dict helpers

EmptyDict == << >>

Put(d, k, v) == [x \in (DOMAIN d) \cup {k} |-> IF x = k THEN v ELSE d[x]]

Restrict(d, ks) == [x \in (DOMAIN d) \cap ks |-> d[x]]

\* ------------------------------------------------------------------- state

VARIABLES
    production_pipelines,      \* set of loaded production pipelines (dict keys)
    production_models_loaded,  \* flag
    models,                    \* dict: model name -> generation
    scalers,                   \* dict: "scaler" -> generation
    encoders,                  \* dict: categorical column -> generation
    feature_columns,           \* list of column names
    models_loaded,             \* flag
    disk,                      \* MODEL_DIR: the persisted artifacts
    ntrain,                    \* training calls started so far
    trainer,                   \* the thread running train_models / retrain_model
    last                       \* the most recent predict / predict_project_outcomes call

vars == <<production_pipelines, production_models_loaded, models, scalers, encoders,
          feature_columns, models_loaded, disk, ntrain, trainer, last>>

\* The fallback registry and the disk as one value, the state the load and
\* training code works on.
Here ==
    [models |-> models, scalers |-> scalers, encoders |-> encoders,
     feature_columns |-> feature_columns, models_loaded |-> models_loaded, disk |-> disk]

\* The registry fields of a state (without the disk).
Registry(st) ==
    [models |-> st.models, scalers |-> st.scalers, encoders |-> st.encoders,
     feature_columns |-> st.feature_columns, models_loaded |-> st.models_loaded]

\* MODEL_DIR before it exists. models: the <name>_model.pkl files that can be
\* read; scalers, encoders, feature_columns: the file's content when the file
\* exists and can be read (<<>> or <<content>>); corrupt: the files that
\* exist and that joblib.load raises on.
NoDisk ==
    [dir |-> FALSE, models |-> EmptyDict, corrupt |-> {}, scalers |-> <<>>,
     encoders |-> <<>>, feature_columns |-> <<>>]

\* ------------------------------------------------ production pipeline load

\* load_production_pipelines: a pipeline is kept when its file exists and
\* joblib.load does not raise; the flag is set when any pipeline was kept.
\* (The outer handler is not reachable: os.path.exists and the logger do not
\* raise, and joblib.load's exception is caught inside the loop.)
LoadedPipelines(files) == {n \in PipelineNames : files[n] = "ok"}

FlagAfterPipelineLoad(pipelines) == pipelines # {}

\* A variant of is_production_ready that asks for one pipeline, as the
\* branch of predict does.
IsProductionReadyWithOne(flag, pipelines) == flag /\ Cardinality(pipelines) >= 1

\* is_production_ready.
IsProductionReady(flag, pipelines) == flag /\ Cardinality(pipelines) >= 2

is_production_ready == IsProductionReady(production_models_loaded, production_pipelines)

\* ----------------------------------------------------------- save_models

\* save_models: makedirs, one file per entry of self.models, then scalers,
\* encoders and feature columns. how = "ok", "save_start" (raises before
\* anything is written) or "save_mid" (raises after the model files).
SaveModels(st, how) ==
    LET d0 == st.disk
        d1 == [d0 EXCEPT !.dir = TRUE,
                         !.models = [n \in (DOMAIN d0.models) \cup (DOMAIN st.models) |->
                                        IF n \in DOMAIN st.models THEN st.models[n]
                                        ELSE d0.models[n]],
                         !.corrupt = d0.corrupt \ (DOMAIN st.models)]
        d2 == [d1 EXCEPT !.scalers = <<st.scalers>>, !.encoders = <<st.encoders>>,
                         !.feature_columns = <<st.feature_columns>>,
                         !.corrupt = d1.corrupt \ {"scalers", "encoders", "feature_columns"}]
    IN  CASE how = "save_start" -> [st |-> st, raised |-> TRUE]
          [] how = "save_mid"   -> [st |-> [st EXCEPT !.disk = d1], raised |-> TRUE]
          [] OTHER              -> [st |-> [st EXCEPT !.disk = d2], raised |-> FALSE]

\* ------------------------------------------------------ prepare_features

RECURSIVE EncodeLoop(_, _, _, _)
\* The loop over categorical_columns from column i: an absent encoder is
\* created and fitted (generation g); a present one transforms, which raises
\* on a label it has not seen when failEncode.
EncodeLoop(enc, i, g, failEncode) ==
    IF i > Len(CategoricalColumns) THEN [encoders |-> enc, raised |-> FALSE]
    ELSE LET col == CategoricalColumns[i]
         IN  IF col \notin DOMAIN enc
             THEN EncodeLoop(Put(enc, col, g), i + 1, g, failEncode)
             ELSE IF failEncode THEN [encoders |-> enc, raised |-> TRUE]
                  ELSE EncodeLoop(enc, i + 1, g, failEncode)

\* The ways prepare_features can raise in a state: at df[feature_columns]
\* ("prepare_select"), at the transform of an encoder that exists
\* ("prepare_encode"), at the transform of a scaler that exists
\* ("prepare_scale").
PrepareFails(st) ==
    {"prepare_select"}
    \cup (IF DOMAIN st.encoders # {} THEN {"prepare_encode"} ELSE {})
    \cup (IF "scaler" \in DOMAIN st.scalers THEN {"prepare_scale"} ELSE {})

PrepareFeatures(st, g, how) ==
    LET s1  == [st EXCEPT !.feature_columns = FeatureColumns]
        enc == EncodeLoop(st.encoders, 1, g, how = "prepare_encode")
        s2  == [s1 EXCEPT !.encoders = enc.encoders]
        s3  == IF "scaler" \in DOMAIN st.scalers THEN s2
               ELSE [s2 EXCEPT !.scalers = Put(st.scalers, "scaler", g)]
    IN  CASE how = "prepare_select" -> [st |-> s1, raised |-> TRUE]
          [] enc.raised             -> [st |-> s2, raised |-> TRUE]
          [] how = "prepare_scale" /\ "scaler" \in DOMAIN st.scalers
                                    -> [st |-> s2, raised |-> TRUE]
          [] OTHER                  -> [st |-> s3, raised |-> FALSE]

\* --------------------------------------------- train_models, retrain_model

\* A training call in progress: op is "train_models" or "retrain_model",
\* target is retrain_model's model_name, i the index of the loop over
\* model_configs, gen the generation the call fits.
NewCall(op, target, g) == [pc |-> "load_dataset", op |-> op, target |-> target, i |-> 1, gen |-> g]

FitLabel(i) == <<"fit1", "fit2", "fit3", "fit4">>[i]

Finished(t) == t.pc \in {"returned", "raised"}

\* The exceptions the next step of a call can raise, by label. "multi" is
\* the one _train_multioutput_model catches itself.
StepFails(t, st) ==
    CASE t.pc = "load_dataset" -> {"load_dataset"}
      [] t.pc = "prepare"      -> PrepareFails(st)
      [] t.pc = "fit"          -> {FitLabel(t.i)}
      [] t.pc = "multi"        -> {"multi"}
      [] t.pc = "save"         -> {"save_start", "save_mid"}
      [] OTHER                 -> {}

\* One step of train_models / retrain_model; how is "ok" or a label of
\* StepFails. A "raised" call has left through `except: ... raise`.
TrainStep(t, st, how) ==
    CASE t.pc = "load_dataset" ->
            [t |-> [t EXCEPT !.pc = IF how = "load_dataset" THEN "raised" ELSE "prepare"],
             st |-> st]
      [] t.pc = "prepare" ->
            LET r == PrepareFeatures(st, t.gen, how)
                unknown == t.op = "retrain_model" /\ t.target \notin ModelConfigNames
            IN  [t |-> [t EXCEPT !.pc = IF r.raised \/ unknown THEN "raised" ELSE "fit"],
                 st |-> r.st]
      [] t.pc = "fit" ->
            LET name == IF t.op = "retrain_model" THEN t.target ELSE ModelConfigs[t.i]
                s1   == [st EXCEPT !.models = Put(st.models, name, t.gen)]
            IN  IF how = FitLabel(t.i) THEN [t |-> [t EXCEPT !.pc = "raised"], st |-> st]
                ELSE IF t.op = "retrain_model" THEN [t |-> [t EXCEPT !.pc = "save"], st |-> s1]
                ELSE IF t.i < Len(ModelConfigs) THEN [t |-> [t EXCEPT !.i = t.i + 1], st |-> s1]
                ELSE [t |-> [t EXCEPT !.pc = "multi"], st |-> s1]
      [] t.pc = "multi" ->
            [t |-> [t EXCEPT !.pc = "save"],
             st |-> IF how = "multi" THEN st
                    ELSE [st EXCEPT !.models = Put(st.models, "multioutput", t.gen)]]
      [] t.pc = "save" ->
            LET r == SaveModels(st, how)
            IN  IF r.raised THEN [t |-> [t EXCEPT !.pc = "raised"], st |-> r.st]
                ELSE [t |-> [t EXCEPT !.pc = "returned"],
                      st |-> IF t.op = "train_models"
                             THEN [r.st EXCEPT !.models_loaded = TRUE] ELSE r.st]
      [] OTHER -> [t |-> t, st |-> st]

\* A variant of the calls' result that turns the exception into False.
ReturnValueBoolean(t) == IF t.pc = "returned" THEN "True" ELSE "False"

\* What a call that ended returned: train_models and retrain_model return
\* True or leave by the exception.
ReturnValue(t) == IF t.pc = "returned" THEN "True" ELSE "exception"

\* The labels a failure plan is made of: the step that raises, if any, and
\* whether the multi-output fit fails.
FailLabels ==
    {"load_dataset", "prepare_select", "prepare_encode", "prepare_scale",
     "fit1", "fit2", "fit3", "fit4", "save_start", "save_mid"}

\* The failure plans of a nested training call: none, or one place.
Plans == {{}, {"load_dataset"}, {"fit3"}, {"multi"}, {"save_mid"}}

\* The step of a plan: the failure of the plan the call can meet here.
PlanHow(t, st, plan) ==
    IF StepFails(t, st) \cap plan = {} THEN "ok" ELSE CHOOSE h \in StepFails(t, st) \cap plan : TRUE

RECURSIVE RunTrain(_, _, _)
RunRest(r, plan) == RunTrain(r.t, r.st, plan)

\* A training call run to its end under a failure plan (a call made inside
\* another call: load_models' training fallback).
RunTrain(t, st, plan) ==
    IF Finished(t) THEN [t |-> t, st |-> st]
    ELSE RunRest(TrainStep(t, st, PlanHow(t, st, plan)), plan)

\* ------------------------------------------------------------ load_models

\* The files load_models reads, in order.
LoadOrder == ModelConfigs \o <<"multioutput", "scalers", "encoders", "feature_columns">>

FileExists(d, f) ==
    \/ f \in d.corrupt
    \/ f \in DOMAIN d.models
    \/ f = "scalers" /\ d.scalers # <<>>
    \/ f = "encoders" /\ d.encoders # <<>>
    \/ f = "feature_columns" /\ d.feature_columns # <<>>

RECURSIVE LoadFiles(_, _)
\* The reads of load_models from file i of LoadOrder: an existing file
\* replaces the registry entry; a corrupt one raises with the earlier
\* entries already replaced.
LoadFiles(st, i) ==
    IF i > Len(LoadOrder) THEN [st |-> st, raised |-> FALSE]
    ELSE LET f == LoadOrder[i]
             d == st.disk
         IN  IF ~FileExists(d, f) THEN LoadFiles(st, i + 1)
             ELSE IF f \in d.corrupt THEN [st |-> st, raised |-> TRUE]
             ELSE CASE f = "scalers"  -> LoadFiles([st EXCEPT !.scalers = d.scalers[1]], i + 1)
                    [] f = "encoders" -> LoadFiles([st EXCEPT !.encoders = d.encoders[1]], i + 1)
                    [] f = "feature_columns" ->
                          LoadFiles([st EXCEPT !.feature_columns = d.feature_columns[1]], i + 1)
                    [] OTHER -> LoadFiles([st EXCEPT !.models = Put(st.models, f, d.models[f])],
                                          i + 1)

\* What load_models has of a train_models call it made.
Trained(run) == [st |-> run.st, raised |-> run.t.pc = "raised", trained |-> TRUE]

\* What load_models has of the files it read: models_loaded is set after
\* the last file.
Loaded(files) ==
    [st |-> IF files.raised THEN files.st ELSE [files.st EXCEPT !.models_loaded = TRUE],
     raised |-> files.raised, trained |-> FALSE]

\* The try block of load_models: without MODEL_DIR it returns what
\* train_models returns, else it reads the files.
LoadModelsTry(st, g, plan1) ==
    IF st.disk.dir THEN Loaded(LoadFiles(st, 1))
    ELSE Trained(RunTrain(NewCall("train_models", "", g), st, plan1))

\* The handler of load_models: it trains, and lets that call's exception out.
LoadModelsExcept(try, g, plan2) ==
    IF try.raised THEN Trained(RunTrain(NewCall("train_models", "", g), try.st, plan2))
    ELSE try

\* load_models. trained: whether train_models was called.
LoadModels(st, g, plan1, plan2) == LoadModelsExcept(LoadModelsTry(st, g, plan1), g, plan2)

\* ------------------------------------------------------------------ values

\* A value of a request mapping (a JSON scalar): a number, a string or null.
\* Numbers are integers in a fixed unit per field: 1/100 for the indices and
\* scores that range over 0..1 (vendor reliability, material availability,
\* environmental risk), 1/10000 degree for latitude and longitude, the
\* field's own unit otherwise.
Num(n) == [t |-> "num", n |-> n, s |-> ""]

Str(x) == [t |-> "str", n |-> 0, s |-> x]

None == [t |-> "none", n |-> 0, s |-> ""]

IsNum(v) == v.t = "num"

\* dict.get(k, default)
Get(d, k, default) == IF k \in DOMAIN d THEN d[k] ELSE default

\* `k in d and d[k] is not None`
Supplied(d, k) == k \in DOMAIN d /\ d[k] # None

\* The strings of the model that float() parses, with their values.
NumericStrings == [x \in {"24"} |-> 24]

\* float(v) raises TypeError on None and ValueError on a string that is no
\* number.
FloatRaises(v) == v.t = "none" \/ (v.t = "str" /\ v.s \notin DOMAIN NumericStrings)

Float(v) == IF v.t = "num" THEN v.n ELSE NumericStrings[v.s]

\* str(v)
StrOf(v) == IF v.t = "str" THEN v.s ELSE IF v.t = "none" THEN "None" ELSE ToString(v.n)

\* What the estimators of the model return.
PredVals == {0, 25}

\* ------------------------------------------- predict: the production path

\* The condition of predict's first branch.
TakesProductionPath(flag, pipelines) == flag /\ Cardinality(pipelines) > 0

\* The numeric fields of the frame predict builds, as <<column, request key,
\* default>>, in the order of the dict literal.
FrameNumeric ==
    <<<<"Latitude", "latitude", 190760>>, <<"Longitude", "longitude", 728777>>,
      <<"Base_Cost_Cr", "baseCost", 100>>, <<"Steel_Price_Index", "steelPrice", 100>>,
      <<"Cement_Price_Index", "cementPrice", 100>>, <<"Labour_Wage_RsPerDay", "labourWage", 500>>,
      <<"Regulatory_Delay_months", "regulatoryDelay", 2>>,
      <<"Historical_Delay_Count", "historicalDelay", 1>>,
      <<"Avg_Annual_Rainfall_cm", "rainfall", 120>>,
      <<"Vendor_Reliability", "vendorReliability", 80>>,
      <<"Material_Availability_Index", "materialAvailability", 80>>,
      <<"Skilled_Manpower_pct", "skilledManpower", 70>>,
      <<"Delay_months", "delayMonths", 0>>,
      <<"Planned_Timeline_months", "plannedTimeline", 24>>,
      <<"Env_Risk_Index", "envRisk", 30>>>>

\* The categorical fields, as <<column, request key, default>>.
FrameCategorical ==
    <<<<"Project_Type", "projectType", "Overhead Line">>, <<"State", "state", "Maharashtra">>,
      <<"Terrain", "terrain", "Plains">>,
      <<"Demand_Supply_Pressure", "demandSupplyPressure", "Medium">>>>

\* pipeline_feature_names of __init__.
PipelineFeatureNames ==
    <<"Project_Type", "State", "Latitude", "Longitude", "Terrain",
      "Base_Cost_Cr", "Steel_Price_Index", "Cement_Price_Index",
      "Labour_Wage_RsPerDay", "Regulatory_Delay_months",
      "Historical_Delay_Count", "Avg_Annual_Rainfall_cm",
      "Vendor_Reliability", "Material_Availability_Index",
      "Demand_Supply_Pressure", "Skilled_Manpower_pct",
      "Delay_months", "Planned_Timeline_months",
      "Cost_per_planned_month", "Env_Risk_Index">>

\* expected_features (equal to pipeline_feature_names).
ExpectedFeatures ==
    <<"Project_Type", "State", "Latitude", "Longitude", "Terrain",
      "Base_Cost_Cr", "Steel_Price_Index", "Cement_Price_Index",
      "Labour_Wage_RsPerDay", "Regulatory_Delay_months",
      "Historical_Delay_Count", "Avg_Annual_Rainfall_cm",
      "Vendor_Reliability", "Material_Availability_Index",
      "Demand_Supply_Pressure", "Skilled_Manpower_pct",
      "Delay_months", "Planned_Timeline_months",
      "Cost_per_planned_month", "Env_Risk_Index">>

\* project_type_map and terrain_map of predict.
ProjectTypeMap == [x \in {"Transmission", "Distribution"} |->
                     IF x = "Transmission" THEN "Overhead Line" ELSE "Underground Cable"]

TerrainMap == [x \in {"Plain", "Hill", "Mountain"} |->
                 CASE x = "Plain" -> "Plains" [] x = "Hill" -> "Hilly" [] OTHER -> "Mountainous"]

\* Building the frame raises when float() does, and with ZeroDivisionError
\* when plannedTimeline is 0.
FrameRaises(features) ==
    \/ \E i \in 1..Len(FrameNumeric) :
          FloatRaises(Get(features, FrameNumeric[i][2], Num(FrameNumeric[i][3])))
    \/ Float(Get(features, "plannedTimeline", Num(24))) = 0

\* The frame handed to the pipelines: column -> value, for a request on which
\* building it does not raise. Skilled_Manpower_pct is float(x) / 100.0, a
\* fraction, carried in 1/100: the same integer as the percentage.
\* Cost_per_planned_month is carried in 1/100, truncated.
ProductionFrameDict(features) ==
    LET num(i) == Float(Get(features, FrameNumeric[i][2], Num(FrameNumeric[i][3])))
        cat(i) == StrOf(Get(features, FrameCategorical[i][2], Str(FrameCategorical[i][3])))
        cols   == {FrameNumeric[i][1] : i \in 1..Len(FrameNumeric)}
                  \cup {FrameCategorical[i][1] : i \in 1..Len(FrameCategorical)}
                  \cup {"Cost_per_planned_month"}
        raw(c) == IF c = "Cost_per_planned_month"
                  THEN Num((100 * Float(Get(features, "baseCost", Num(100))))
                           \div Float(Get(features, "plannedTimeline", Num(24))))
                  ELSE IF \E i \in 1..Len(FrameNumeric) : FrameNumeric[i][1] = c
                  THEN Num(num(CHOOSE i \in 1..Len(FrameNumeric) : FrameNumeric[i][1] = c))
                  ELSE Str(cat(CHOOSE i \in 1..Len(FrameCategorical) : FrameCategorical[i][1] = c))
        fix(c) == CASE c = "Project_Type" /\ raw(c).s \in DOMAIN ProjectTypeMap
                          -> Str(ProjectTypeMap[raw(c).s])
                    [] c = "Terrain" /\ raw(c).s \in DOMAIN TerrainMap
                          -> Str(TerrainMap[raw(c).s])
                    [] OTHER -> raw(c)
    IN  [c \in cols |-> fix(c)]

\* A variant of the frame without the derived column Cost_per_planned_month.
ProductionFrameWithoutDerived(features) ==
    LET d == ProductionFrameDict(features)
        e == SelectSeq(ExpectedFeatures, LAMBDA c : c # "Cost_per_planned_month")
    IN  [i \in 1..Len(e) |-> <<e[i], d[e[i]]>>]

\* features_df[expected_features]: the columns in the expected order.
ProductionFrame(features) ==
    LET d == ProductionFrameDict(features)
    IN  [i \in 1..Len(ExpectedFeatures) |-> <<ExpectedFeatures[i], d[ExpectedFeatures[i]]>>]

\* A variant of the pipeline loop in which a pipeline that raises aborts
\* the batch: every target is 0.0.
ProductionPredictionsAborted(pipelines, raising, vals) ==
    [n \in pipelines |-> IF raising # {} THEN Num(0) ELSE Num(vals[n])]

\* A variant of the pipeline loop that reports 0.0 for a pipeline that is
\* not loaded.
ProductionPredictionsPadded(pipelines, raising, vals) ==
    [n \in PipelineNames |-> IF n \in pipelines \ raising THEN Num(vals[n]) ELSE Num(0)]

\* The loop over the loaded pipelines: a pipeline that raises gives 0.0, the
\* others what they returned.
ProductionPredictions(pipelines, raising, vals) ==
    [n \in pipelines |-> IF n \in raising THEN Num(0) ELSE Num(vals[n])]

\* predict's production branch.
PredictProduction(pipelines, features, raising, vals) ==
    IF FrameRaises(features)
    THEN [outcome |-> "raised", result |-> EmptyDict]
    ELSE [outcome |-> "returned", result |-> ProductionPredictions(pipelines, raising, vals)]

\* --------------------------------------------- predict: the fallback path

Elems(seq) == {seq[i] : i \in 1..Len(seq)}

CategoricalSet == Elems(CategoricalColumns)

\* The columns _feature_engineering adds, and the columns it reads.
DerivedColumns ==
    {"Cost_per_Month", "Wage_Cost_Ratio", "Price_Volatility", "Resource_Risk",
     "Terrain_Risk_Score", "Project_Complexity"}

EngineeringNumeric ==
    {"Base_Cost_Cr", "Planned_Timeline_months", "Labour_Wage_RsPerDay", "Steel_Price_Index",
     "Cement_Price_Index", "Vendor_Reliability", "Material_Availability_Index"}

EngineeringCategorical == {"Terrain", "Project_Type"}

\* The tables of _feature_engineering.
TerrainRiskScore ==
    [x \in {"Plains", "Hilly", "Desert", "Coastal", "Urban", "Mountainous"} |->
        CASE x = "Plains" -> 1 [] x = "Hilly" -> 2 [] x = "Desert" -> 3
          [] x = "Coastal" -> 4 [] x = "Urban" -> 5 [] OTHER -> 6]

ProjectComplexity ==
    [x \in {"Overhead Line", "Substation", "Underground Cable"} |->
        CASE x = "Overhead Line" -> 1 [] x = "Substation" -> 2 [] OTHER -> 3]

\* The labels the encoders were fitted on (the categories of the dataset, as
\* predict's comments list them).
Classes(col) ==
    CASE col = "Project_Type" -> DOMAIN ProjectComplexity
      [] col = "Terrain"      -> DOMAIN TerrainRiskScore
      [] OTHER                -> {"Low", "Medium", "High"}

\* _feature_engineering on the one-row frame of a request raises KeyError on
\* a column it reads that is absent and TypeError on arithmetic with a value
\* that is no number.
FeatureEngineeringRaises(features) ==
    \/ \E k \in EngineeringNumeric \cup EngineeringCategorical : k \notin DOMAIN features
    \/ \E k \in EngineeringNumeric : ~IsNum(features[k])

\* The derived columns that are inf or NaN: a division by 0 (pandas does not
\* raise) and a terrain or project type that is not in the table.
NonFinite(features) ==
    \/ features["Planned_Timeline_months"].n = 0
    \/ features["Base_Cost_Cr"].n = 0
    \/ features["Terrain"].s \notin DOMAIN TerrainRiskScore
    \/ features["Project_Type"].s \notin DOMAIN ProjectComplexity

\* A numerical column of the selection that the scaler or an estimator
\* rejects (ValueError): not finite, or not a number.
NumericBad(features, fc) ==
    \/ NonFinite(features)
    \/ \E c \in (Elems(fc) \ CategoricalSet) \ DerivedColumns : ~IsNum(features[c])

\* _prepare_single_prediction_features raises: in _feature_engineering, at
\* df[self.feature_columns] (KeyError), at an encoder's transform of a label
\* it has not seen, at the scaler's transform.
PrepareSingleRaises(features, st) ==
    \/ FeatureEngineeringRaises(features)
    \/ \E c \in Elems(st.feature_columns) \ DerivedColumns : c \notin DOMAIN features
    \/ \E c \in (CategoricalSet \cap Elems(st.feature_columns)) \cap DOMAIN st.encoders :
          ~(features[c].t = "str" /\ features[c].s \in Classes(c))
    \/ /\ "scaler" \in DOMAIN st.scalers
       /\ st.feature_columns = <<>> \/ NumericBad(features, st.feature_columns)

\* An estimator's predict raises on the prepared row: not the 20 columns it
\* was fitted on, a categorical column no encoder encoded, a value that is
\* not finite.
EstimatorRaises(features, st) ==
    \/ st.feature_columns # FeatureColumns
    \/ \E c \in CategoricalSet : c \notin DOMAIN st.encoders
    \/ NumericBad(features, st.feature_columns)

\* The estimators predict calls for a prediction type.
CalledModels(ms, ptype) ==
    IF ptype = "all"
    THEN IF "multioutput" \in DOMAIN ms THEN {"multioutput"} ELSE ModelConfigNames \cap DOMAIN ms
    ELSE {ptype} \cap DOMAIN ms

\* The keys of the multi-output prediction, in the order of target_columns.
MultiOutputKeys == <<"delay_months", "cost_overrun_pct", "total_cost_cr", "timeline_months">>

\* A variant of the predictions dict in which the i-th configured estimator
\* answers under the i-th key of the multi-output prediction.
FallbackPredictionsByTarget(ms, ptype, ovals) ==
    IF ptype = "all"
    THEN LET called == {i \in 1..Len(ModelConfigs) :
                           "multioutput" \in DOMAIN ms \/ ModelConfigs[i] \in DOMAIN ms}
         IN  [k \in {MultiOutputKeys[i] : i \in called} |->
                 Num(ovals[CHOOSE i \in 1..Len(MultiOutputKeys) : MultiOutputKeys[i] = k])]
    ELSE [n \in CalledModels(ms, ptype) |-> Num(ovals[1])]

\* The predictions dict before the assessment; ovals[i] is what the i-th
\* output (multi-output) or the i-th configured estimator returns.
FallbackPredictions(ms, ptype, ovals) ==
    IF ptype = "all" /\ "multioutput" \in DOMAIN ms
    THEN [k \in Elems(MultiOutputKeys) |->
             Num(ovals[CHOOSE i \in 1..Len(MultiOutputKeys) : MultiOutputKeys[i] = k])]
    ELSE [n \in CalledModels(ms, ptype) |->
             Num(ovals[IF n \in ModelConfigNames
                       THEN CHOOSE i \in 1..Len(ModelConfigs) : ModelConfigs[i] = n ELSE 1])]

\* A variant of _assess_risk's score whose points for the cost overrun are in
\* the reverse order: 1 above 20, 2 above 10, 3 above 5.
RiskScoreReversed(predictions) ==
    LET overrun == Get(predictions, "cost_overrun_pct", Num(0)).n
        delay   == Get(predictions, "delay_months", Num(0)).n
    IN  (IF overrun > 20 THEN 1 ELSE IF overrun > 10 THEN 2 ELSE IF overrun > 5 THEN 3 ELSE 0)
        + (IF delay > 6 THEN 3 ELSE IF delay > 3 THEN 2 ELSE IF delay > 1 THEN 1 ELSE 0)

\* _assess_risk
RiskScore(predictions) ==
    LET overrun == Get(predictions, "cost_overrun_pct", Num(0)).n
        delay   == Get(predictions, "delay_months", Num(0)).n
    IN  (IF overrun > 20 THEN 3 ELSE IF overrun > 10 THEN 2 ELSE IF overrun > 5 THEN 1 ELSE 0)
        + (IF delay > 6 THEN 3 ELSE IF delay > 3 THEN 2 ELSE IF delay > 1 THEN 1 ELSE 0)

\* A variant of _assess_risk that returns High from a score of 4.
AssessRiskFromFour(predictions) ==
    IF RiskScore(predictions) >= 4 THEN "High"
    ELSE IF RiskScore(predictions) >= 3 THEN "Medium" ELSE "Low"

AssessRisk(predictions) ==
    IF RiskScore(predictions) >= 5 THEN "High"
    ELSE IF RiskScore(predictions) >= 3 THEN "Medium" ELSE "Low"

\* _calculate_confidence
KeyFeatures ==
    {"Base_Cost_Cr", "Vendor_Reliability", "Material_Availability_Index",
     "Skilled_Manpower_pct", "Planned_Timeline_months"}

\* A comparison of a value that is no number with a number raises TypeError.
ConfidenceRaises(features) ==
    \E k \in {"Vendor_Reliability", "Material_Availability_Index", "Historical_Delay_Count"} :
        k \in DOMAIN features /\ ~IsNum(features[k])

Min(a, b) == IF a <= b THEN a ELSE b

Max(a, b) == IF a >= b THEN a ELSE b

\* A variant of _calculate_confidence without the cap of min(100, ...).
CalculateConfidenceUncapped(features) ==
    LET present == Cardinality({k \in KeyFeatures : Supplied(features, k)})
        base    == (present * 100) \div Cardinality(KeyFeatures)
        quality == (IF Get(features, "Vendor_Reliability", Num(0)).n > 80 THEN 5 ELSE 0)
                   + (IF Get(features, "Material_Availability_Index", Num(0)).n > 80 THEN 5 ELSE 0)
                   + (IF Get(features, "Historical_Delay_Count", Num(0)).n < 3 THEN 5 ELSE 0)
    IN  base + quality

CalculateConfidence(features) ==
    LET present == Cardinality({k \in KeyFeatures : Supplied(features, k)})
        base    == (present * 100) \div Cardinality(KeyFeatures)
        quality == (IF Get(features, "Vendor_Reliability", Num(0)).n > 80 THEN 5 ELSE 0)
                   + (IF Get(features, "Material_Availability_Index", Num(0)).n > 80 THEN 5 ELSE 0)
                   + (IF Get(features, "Historical_Delay_Count", Num(0)).n < 3 THEN 5 ELSE 0)
    IN  Min(100, base + quality)

\* predict after the production branch and the load: lines 376-407.
PredictFallback(st, features, ptype, ovals) ==
    LET preds == FallbackPredictions(st.models, ptype, ovals)
    IN  IF PrepareSingleRaises(features, st) THEN [outcome |-> "raised", result |-> EmptyDict]
        ELSE IF CalledModels(st.models, ptype) # {} /\ EstimatorRaises(features, st)
        THEN [outcome |-> "raised", result |-> EmptyDict]
        ELSE IF ConfidenceRaises(features) THEN [outcome |-> "raised", result |-> EmptyDict]
        ELSE [outcome |-> "returned",
              result |-> [k \in (DOMAIN preds) \cup {"risk_assessment", "confidence_score"} |->
                            CASE k = "risk_assessment"  -> Str(AssessRisk(preds))
                              [] k = "confidence_score" -> Num(CalculateConfidence(features))
                              [] OTHER                  -> preds[k]]]

\* predict through the production branch: the registry is not touched.
ProductionCall(st, prod) ==
    [path |-> "production", outcome |-> prod.outcome, result |-> prod.result,
     st |-> st, trained |-> FALSE, wrote |-> FALSE]

FallbackReturn(st, loaded, fb) ==
    [path |-> "fallback", outcome |-> fb.outcome, result |-> fb.result,
     st |-> loaded.st, trained |-> loaded.trained, wrote |-> ~st.models_loaded]

\* predict below the production branch; loaded is what load_models did.
FallbackCall(st, loaded, features, ptype, ovals) ==
    IF loaded.raised
    THEN [path |-> "fallback", outcome |-> "raised", result |-> EmptyDict,
          st |-> loaded.st, trained |-> loaded.trained, wrote |-> TRUE]
    ELSE FallbackReturn(st, loaded, PredictFallback(loaded.st, features, ptype, ovals))

\* `if not self.models_loaded: self.load_models()`.
EnsureLoaded(st, g, plan1, plan2) ==
    IF st.models_loaded THEN [st |-> st, raised |-> FALSE, trained |-> FALSE]
    ELSE LoadModels(st, g, plan1, plan2)

\* MLService.predict. env: what the environment decides in the call: the
\* pipelines that raise and what the others return (raising, vals), what the
\* fallback estimators return (ovals), how a training started by load_models
\* fails (plan1, plan2). g: the generation such a training fits.
Predict(flag, pipelines, st, features, ptype, env, g) ==
    IF TakesProductionPath(flag, pipelines)
    THEN ProductionCall(st, PredictProduction(pipelines, features, env.raising, env.vals))
    ELSE FallbackCall(st, EnsureLoaded(st, g, env.plan1, env.plan2), features, ptype, env.ovals)

\* ------------------------------------------------------ PredictionService

\* field_mapping of _convert_to_ml_format, in order.
FieldMapping ==
    <<<<"projectType", "Project_Type">>, <<"terrainType", "Terrain">>,
      <<"baseEstimatedCost", "Base_Cost_Cr">>, <<"steelPriceIndex", "Steel_Price_Index">>,
      <<"cementPriceIndex", "Cement_Price_Index">>, <<"labourWageRate", "Labour_Wage_RsPerDay">>,
      <<"regulatoryDelayEstimate", "Regulatory_Delay_months">>,
      <<"historicalDelayPattern", "Historical_Delay_Count">>,
      <<"annualRainfall", "Avg_Annual_Rainfall_cm">>,
      <<"vendorReliabilityScore", "Vendor_Reliability">>,
      <<"materialAvailabilityIndex", "Material_Availability_Index">>,
      <<"demandSupplyPressure", "Demand_Supply_Pressure">>,
      <<"skilledManpowerAvailability", "Skilled_Manpower_pct">>,
      <<"plannedTimelineMonths", "Planned_Timeline_months">>>>

\* type_mapping, terrain_mapping, pressure_mapping, delay_mapping with the
\* default of their .get.
TypeMapping(v) ==
    CASE v = Str("substation")        -> Str("Substation")
      [] v = Str("overhead-line")     -> Str("Overhead Line")
      [] v = Str("underground-cable") -> Str("Underground Cable")
      [] OTHER                        -> Str("Substation")

TerrainMapping(v) ==
    CASE v = Str("plains")      -> Str("Plains")
      [] v = Str("hilly")       -> Str("Hilly")
      [] v = Str("desert")      -> Str("Desert")
      [] v = Str("coastal")     -> Str("Coastal")
      [] v = Str("urban")       -> Str("Urban")
      [] v = Str("mountainous") -> Str("Mountainous")
      [] OTHER                  -> Str("Plains")

PressureMapping(v) ==
    CASE v = Str("low")    -> Str("Low")
      [] v = Str("medium") -> Str("Medium")
      [] v = Str("high")   -> Str("High")
      [] OTHER             -> Str("Medium")

\* A variant of delay_mapping that lets a pattern it does not have through.
DelayMappingPassThrough(v) ==
    CASE v = Str("low")    -> Num(1)
      [] v = Str("medium") -> Num(3)
      [] v = Str("high")   -> Num(5)
      [] OTHER             -> v

DelayMapping(v) ==
    CASE v = Str("low")    -> Num(1)
      [] v = Str("medium") -> Num(3)
      [] v = Str("high")   -> Num(5)
      [] OTHER             -> Num(3)

\* The defaults for the features the request does not give.
MlDefaults ==
    [k \in {"Steel_Price_Index", "Cement_Price_Index", "Regulatory_Delay_months",
            "Historical_Delay_Count", "Avg_Annual_Rainfall_cm", "Demand_Supply_Pressure",
            "Planned_Timeline_months"} |->
        CASE k = "Steel_Price_Index"       -> Num(100)
          [] k = "Cement_Price_Index"      -> Num(100)
          [] k = "Regulatory_Delay_months" -> Num(0)
          [] k = "Historical_Delay_Count"  -> Num(3)
          [] k = "Avg_Annual_Rainfall_cm"  -> Num(100)
          [] k = "Demand_Supply_Pressure"  -> Str("Medium")
          [] OTHER                         -> Num(12)]

\* _convert_to_ml_format
ConvertToMlFormat(project_data) ==
    LET idx(mk)  == CHOOSE i \in 1..Len(FieldMapping) : FieldMapping[i][2] = mk
        fk(mk)   == FieldMapping[idx(mk)][1]
        mapped   == {FieldMapping[i][2] : i \in {j \in 1..Len(FieldMapping) :
                                                   FieldMapping[j][1] \in DOMAIN project_data}}
        conv(mk) == LET v == project_data[fk(mk)]
                    IN  CASE fk(mk) = "projectType"            -> TypeMapping(v)
                          [] fk(mk) = "terrainType"            -> TerrainMapping(v)
                          [] fk(mk) = "demandSupplyPressure"   -> PressureMapping(v)
                          [] fk(mk) = "historicalDelayPattern" -> DelayMapping(v)
                          [] OTHER                             -> v
    IN  [mk \in mapped \cup DOMAIN MlDefaults |->
            IF mk \in mapped THEN conv(mk) ELSE MlDefaults[mk]]

\* A comparison or an arithmetic operation of the request's value for key k
\* with a number raises TypeError: the key is there and its value is no
\* number.
NotNumber(project_data, k) == k \in DOMAIN project_data /\ ~IsNum(project_data[k])

\* _generate_recommendations: the list, as <<type, priority>> per entry.
RecommendationsRaises(project_data) ==
    \E k \in {"vendorReliabilityScore", "materialAvailabilityIndex",
              "skilledManpowerAvailability", "annualRainfall"} : NotNumber(project_data, k)

GenerateRecommendations(project_data, predictions) ==
    LET cost_overrun == Get(predictions, "cost_overrun_pct", Num(0)).n
        delay_months == Get(predictions, "delay_months", Num(0)).n
        vendor       == Get(project_data, "vendorReliabilityScore", Num(80)).n
        material     == Get(project_data, "materialAvailabilityIndex", Num(80)).n
        manpower     == Get(project_data, "skilledManpowerAvailability", Num(70)).n
        terrain      == Get(project_data, "terrainType", Str("plains"))
        rainfall     == Get(project_data, "annualRainfall", Num(100)).n
    IN  (IF cost_overrun > 15 THEN <<<<"cost", "high">>>>
         ELSE IF cost_overrun > 8 THEN <<<<"cost", "medium">>>> ELSE <<>>)
        \o (IF delay_months > 4 THEN <<<<"timeline", "high">>>>
            ELSE IF delay_months > 2 THEN <<<<"timeline", "medium">>>> ELSE <<>>)
        \o (IF vendor < 60 THEN <<<<"vendor", "high">>>> ELSE <<>>)
        \o (IF material < 70 THEN <<<<"materials", "medium">>>> ELSE <<>>)
        \o (IF manpower < 60 THEN <<<<"manpower", "high">>>> ELSE <<>>)
        \o (IF terrain \in {Str("mountainous"), Str("urban")}
            THEN <<<<"terrain", "medium">>>> ELSE <<>>)
        \o (IF rainfall > 150 THEN <<<<"environmental", "medium">>>> ELSE <<>>)

\* _analyze_risk_factors: the four lists, as <<factor, severity>> per entry.
RiskFactorsRaises(project_data) ==
    \E k \in {"steelPriceIndex", "cementPriceIndex", "vendorReliabilityScore",
              "skilledManpowerAvailability", "annualRainfall", "regulatoryDelayEstimate"} :
        NotNumber(project_data, k)

Abs(x) == IF x < 0 THEN -x ELSE x

AnalyzeRiskFactors(project_data, predictions) ==
    LET cost_overrun == Get(predictions, "cost_overrun_pct", Num(0)).n
        steel        == Get(project_data, "steelPriceIndex", Num(100)).n
        cement       == Get(project_data, "cementPriceIndex", Num(100)).n
        vendor       == Get(project_data, "vendorReliabilityScore", Num(80)).n
        manpower     == Get(project_data, "skilledManpowerAvailability", Num(70)).n
        terrain      == Get(project_data, "terrainType", Str("plains"))
        rainfall     == Get(project_data, "annualRainfall", Num(100)).n
        regulatory   == Get(project_data, "regulatoryDelayEstimate", Num(0)).n
        pressure     == Get(project_data, "demandSupplyPressure", Str("medium"))
    IN  [financial_risks |->
            (IF cost_overrun > 10
             THEN <<<<"Cost Overrun Risk", IF cost_overrun > 20 THEN "High" ELSE "Medium">>>>
             ELSE <<>>)
            \o (IF Abs(steel - 100) > 15 \/ Abs(cement - 100) > 15
                THEN <<<<"Material Price Volatility", "Medium">>>> ELSE <<>>),
         operational_risks |->
            (IF vendor < 70
             THEN <<<<"Vendor Performance Risk", IF vendor < 60 THEN "High" ELSE "Medium">>>>
             ELSE <<>>)
            \o (IF manpower < 70
                THEN <<<<"Skilled Labor Shortage", IF manpower < 50 THEN "High" ELSE "Medium">>>>
                ELSE <<>>),
         environmental_risks |->
            (IF terrain \in {Str("mountainous"), Str("urban"), Str("coastal")}
             THEN <<<<"Terrain Complexity",
                      IF terrain = Str("mountainous") THEN "High" ELSE "Medium">>>>
             ELSE <<>>)
            \o (IF rainfall > 150 THEN <<<<"High Rainfall Impact", "Medium">>>> ELSE <<>>),
         external_risks |->
            (IF regulatory > 3 THEN <<<<"Regulatory Approval Delays", "Medium">>>> ELSE <<>>)
            \o (IF pressure = Str("high") THEN <<<<"Market Demand Pressure", "Medium">>>>
                ELSE <<>>)]

NoRiskFactors ==
    [financial_risks |-> <<>>, operational_risks |-> <<>>, environmental_risks |-> <<>>,
     external_risks |-> <<>>]

\* _calculate_data_completeness, in percent (a multiple of 5).
RequiredFields ==
    {"projectType", "terrainType", "baseEstimatedCost", "labourWageRate",
     "vendorReliabilityScore", "materialAvailabilityIndex", "skilledManpowerAvailability"}

OptionalFields ==
    {"steelPriceIndex", "cementPriceIndex", "regulatoryDelayEstimate",
     "annualRainfall", "demandSupplyPressure", "historicalDelayPattern"}

CalculateDataCompleteness(project_data) ==
    LET required_score == Cardinality({f \in RequiredFields : Supplied(project_data, f)})
        optional_score == Cardinality({f \in OptionalFields : Supplied(project_data, f)})
    IN  ((required_score * 2 + optional_score) * 100)
        \div (Cardinality(RequiredFields) * 2 + Cardinality(OptionalFields))

\* The numbers of a response are carried in 1/100 of the field's unit
\* (percent, months), predicted_total_cost in 1/10000 crore, so that the
\* rule-based formula stays in integers; confidence_score is in points.

\* The response's predictions built from the ML predictions (lines 45-55):
\* max and min of a value that is no number with a number raise TypeError.
FormatRaises(project_data, predictions) ==
    \/ NotNumber(project_data, "baseEstimatedCost")
    \/ "timeline_months" \notin DOMAIN predictions
       /\ NotNumber(project_data, "plannedTimelineMonths")

\* A variant of the response formatter that reads the keys the production
\* pipelines answer under.
FormatPredictionsOfPipelineKeys(project_data, predictions) ==
    [cost_overrun_probability |->
        Num(100 * Max(0, Min(100, Get(predictions, "overrun_prediction", Num(0)).n))),
     predicted_delay_months |-> Num(100 * Max(0, Get(predictions, "delay_months", Num(0)).n)),
     predicted_total_cost |->
        Num(10000 * Max(Get(project_data, "baseEstimatedCost", Num(0)).n,
                        Get(predictions, "cost_prediction", Num(0)).n)),
     predicted_timeline_months |->
        Num(100 * Max(1, Get(predictions, "timeline_prediction",
                             Get(project_data, "plannedTimelineMonths", Num(12))).n)),
     risk_category |-> Get(predictions, "risk_assessment", Str("Medium")),
     confidence_score |-> Get(predictions, "confidence_score", Num(75))]

FormatPredictions(project_data, predictions) ==
    [cost_overrun_probability |->
        Num(100 * Max(0, Min(100, Get(predictions, "cost_overrun_pct", Num(0)).n))),
     predicted_delay_months |-> Num(100 * Max(0, Get(predictions, "delay_months", Num(0)).n)),
     predicted_total_cost |->
        Num(10000 * Max(Get(project_data, "baseEstimatedCost", Num(0)).n,
                        Get(predictions, "total_cost_cr", Num(0)).n)),
     predicted_timeline_months |->
        Num(100 * Max(1, Get(predictions, "timeline_months",
                             Get(project_data, "plannedTimelineMonths", Num(12))).n)),
     risk_category |-> Get(predictions, "risk_assessment", Str("Medium")),
     confidence_score |-> Get(predictions, "confidence_score", Num(75))]

\* round(x, 1) of a value in 1/100: to the nearest 1/10, a tie to the even
\* one.
Round1(h) ==
    LET q == h \div 10
        r == h % 10
    IN  10 * (IF r > 5 \/ (r = 5 /\ q % 2 = 1) THEN q + 1 ELSE q)

\* terrain_multipliers.get(terrain, 1.0), in 1/100.
TerrainMultiplier(terrain) ==
    CASE terrain = Str("plains")      -> 100
      [] terrain = Str("hilly")       -> 115
      [] terrain = Str("desert")      -> 110
      [] terrain = Str("coastal")     -> 120
      [] terrain = Str("urban")       -> 125
      [] terrain = Str("mountainous") -> 135
      [] OTHER                        -> 100

\* _fallback_predictions raises TypeError on arithmetic with a value that is
\* no number.
FallbackRuleRaises(project_data) ==
    \E k \in {"baseEstimatedCost", "vendorReliabilityScore", "plannedTimelineMonths"} :
        NotNumber(project_data, k)

FallbackRule(project_data) ==
    LET base_cost == Get(project_data, "baseEstimatedCost", Num(1000)).n
        terrain   == Get(project_data, "terrainType", Str("plains"))
        vendor    == Get(project_data, "vendorReliabilityScore", Num(80)).n
        planned   == Get(project_data, "plannedTimelineMonths", Num(12)).n
        tf        == TerrainMultiplier(terrain)
        overrun   == Max(0, Min(5000, (tf - 100) * 100 + (100 - vendor) * 25))
        delay     == Max(0, (tf - 100) * 12 + (100 - vendor) * 6)
        risk      == IF overrun > 2000 \/ delay > 400 THEN "High"
                     ELSE IF overrun > 1000 \/ delay > 200 THEN "Medium" ELSE "Low"
    IN  [cost_overrun_probability |-> Num(Round1(overrun)),
         predicted_delay_months |-> Num(Round1(delay)),
         predicted_total_cost |-> Num(base_cost * (10000 + overrun)),
         predicted_timeline_months |-> Num(planned * 100 + delay),
         risk_category |-> Str(risk),
         confidence_score |-> Num(60)]

\* The two response objects. prediction_date is the clock's value.
MlResponse(project_data, predictions) ==
    [predictions |-> FormatPredictions(project_data, predictions),
     recommendations |-> GenerateRecommendations(project_data, predictions),
     risk_factors |-> AnalyzeRiskFactors(project_data, predictions),
     analysis |-> [k \in {"model_version", "prediction_date", "data_completeness"} |->
                     CASE k = "model_version"   -> Str("1.0.0")
                       [] k = "prediction_date" -> Str("utcnow")
                       [] OTHER -> Num(CalculateDataCompleteness(project_data))]]

FallbackResponse(project_data) ==
    [predictions |-> FallbackRule(project_data),
     recommendations |-> <<>>,
     risk_factors |-> NoRiskFactors,
     analysis |-> [k \in {"model_version", "prediction_date", "data_completeness", "note"} |->
                     CASE k = "model_version"   -> Str("fallback-1.0")
                       [] k = "prediction_date" -> Str("utcnow")
                       [] k = "note"            -> Str("Using fallback prediction logic")
                       [] OTHER -> Num(CalculateDataCompleteness(project_data))]]

NoResponse ==
    [predictions |-> EmptyDict, recommendations |-> <<>>, risk_factors |-> NoRiskFactors,
     analysis |-> EmptyDict]

\* predict_project_outcomes: ml is the outcome of self.ml_service.predict on
\* the converted request. Any exception in the try block leads to
\* _fallback_predictions, whose own exception leaves the method.
PredictProjectOutcomes(project_data, ml) ==
    IF \/ ml.outcome = "raised"
       \/ RecommendationsRaises(project_data)
       \/ RiskFactorsRaises(project_data)
       \/ FormatRaises(project_data, ml.result)
    THEN IF FallbackRuleRaises(project_data)
         THEN [svc |-> "raised", branch |-> "rule", response |-> NoResponse]
         ELSE [svc |-> "returned", branch |-> "rule",
               response |-> FallbackResponse(project_data)]
    ELSE [svc |-> "returned", branch |-> "ml", response |-> MlResponse(project_data, ml.result)]

\* ----------------------------------------------------------------- inputs

\* The request of PredictionResource.post's docstring.
FullRequest ==
    [k \in {"projectType", "terrainType", "baseEstimatedCost", "labourWageRate",
            "steelPriceIndex", "cementPriceIndex", "vendorReliabilityScore",
            "materialAvailabilityIndex", "skilledManpowerAvailability",
            "regulatoryDelayEstimate", "historicalDelayPattern", "annualRainfall",
            "demandSupplyPressure", "plannedTimelineMonths"} |->
        CASE k = "projectType"                 -> Str("substation")
          [] k = "terrainType"                 -> Str("urban")
          [] k = "baseEstimatedCost"           -> Num(1200)
          [] k = "labourWageRate"              -> Num(450)
          [] k = "steelPriceIndex"             -> Num(105)
          [] k = "cementPriceIndex"            -> Num(110)
          [] k = "vendorReliabilityScore"      -> Num(80)
          [] k = "materialAvailabilityIndex"   -> Num(75)
          [] k = "skilledManpowerAvailability" -> Num(70)
          [] k = "regulatoryDelayEstimate"     -> Num(2)
          [] k = "historicalDelayPattern"      -> Str("medium")
          [] k = "annualRainfall"              -> Num(120)
          [] k = "demandSupplyPressure"        -> Str("high")
          [] OTHER                             -> Num(24)]

\* The requests of the model: the full one, the required fields only, the
\* empty mapping, a null, a zero timeline, and a zero timeline on plains with
\* a fully reliable vendor (no delay by the rule-based formula).
SampleRequests ==
    {FullRequest,
     Restrict(FullRequest, RequiredFields),
     EmptyDict,
     Put(FullRequest, "vendorReliabilityScore", None),
     Put(FullRequest, "plannedTimelineMonths", Num(0)),
     [FullRequest EXCEPT !["plannedTimelineMonths"] = Num(0), !["terrainType"] = Str("plains"),
                         !["vendorReliabilityScore"] = Num(100)],
     Put(FullRequest, "materialAvailabilityIndex", None)}

\* test_project of test_simple.py.
TestProject ==
    [k \in {"projectType", "state", "terrain", "baseCost", "plannedTimeline",
            "vendorReliability", "materialAvailability", "demandSupplyPressure"} |->
        CASE k = "projectType"          -> Str("Overhead Line")
          [] k = "state"                -> Str("Maharashtra")
          [] k = "terrain"              -> Str("Plains")
          [] k = "baseCost"             -> Num(150)
          [] k = "plannedTimeline"      -> Num(24)
          [] k = "vendorReliability"    -> Num(80)
          [] k = "materialAvailability" -> Num(80)
          [] OTHER                      -> Str("Medium")]

\* The mappings predict is called with: requests in the naming of the
\* production frame, and what _convert_to_ml_format makes of the requests.
SampleFeatures ==
    {TestProject, EmptyDict, Put(TestProject, "plannedTimeline", Num(0))}

PredictionTypes == {"all", "cost_overrun"}

\* What the loaded pipelines return, one value per pipeline.
PipelineVals(pipelines) ==
    {[n \in pipelines |-> 25],
     [n \in pipelines |-> IF n = "cost_prediction" THEN 25 ELSE 0]}

\* What the fallback estimators return, one value per target.
Ovals == {<<25, 25, 25, 25>>, <<25, 0, 25, 0>>}

\* What the environment can decide in a predict call made in a state.
ProductionEnvs(pipelines, mayRaise) ==
    {[raising |-> r, vals |-> v, ovals |-> <<>>, plan1 |-> {}, plan2 |-> {}] :
        r \in SUBSET (pipelines \cap mayRaise), v \in PipelineVals(pipelines)}

FallbackEnvs(st, ovalSet) ==
    LET plans1 == IF ~st.models_loaded /\ ~st.disk.dir THEN Plans ELSE {{}}
        second(p1) ==
            LET r == LoadModels(st, 0, p1, {})
            IN  IF ~st.models_loaded /\ r.trained /\ (st.disk.dir \/ p1 # {}) THEN Plans ELSE {{}}
    IN  UNION {{[raising |-> {}, vals |-> EmptyDict, ovals |-> o, plan1 |-> p1, plan2 |-> p2] :
                  o \in ovalSet, p2 \in second(p1)} : p1 \in plans1}

Envs(flag, pipelines, st, ovalSet, mayRaise) ==
    IF TakesProductionPath(flag, pipelines) THEN ProductionEnvs(pipelines, mayRaise)
    ELSE FallbackEnvs(st, ovalSet)

\* -------------------------------------------------------------------- Init

\* MODEL_DIR as construction can find it: absent, empty (app.py creates it),
\* or as an earlier process (generation 0) saved it, with or without the
\* multi-output model, or with a file that cannot be read.
Saved0 ==
    [dir |-> TRUE,
     models |-> [n \in ModelConfigNames \cup {"multioutput"} |-> 0],
     corrupt |-> {},
     scalers |-> <<[k \in {"scaler"} |-> 0]>>,
     encoders |-> <<[c \in CategoricalSet |-> 0]>>,
     feature_columns |-> <<FeatureColumns>>]

InitDisks ==
    {NoDisk,
     [NoDisk EXCEPT !.dir = TRUE],
     Saved0,
     [Saved0 EXCEPT !.models = Restrict(Saved0.models, ModelConfigNames)],
     [Saved0 EXCEPT !.models = Restrict(Saved0.models, ModelConfigNames \ {"cost_prediction"}),
                    !.corrupt = {"cost_prediction"}]}

\* The registry of a fresh MLService.
NoRegistry ==
    [models |-> EmptyDict, scalers |-> EmptyDict, encoders |-> EmptyDict,
     feature_columns |-> <<>>, models_loaded |-> FALSE]

\* The training thread: the call it is in (NewCall), and about that call the
\* registry when it began (pre) and when it ended (post), whether another
\* call wrote the registry meanwhile (others), and the failures it met.
Idle ==
    [pc |-> "idle", op |-> "", target |-> "", i |-> 1, gen |-> 0,
     pre |-> NoRegistry, post |-> NoRegistry, others |-> FALSE, failed |-> {}]

NoCall ==
    [op |-> "none", request |-> EmptyDict, features |-> EmptyDict, ptype |-> "", path |-> "", outcome |-> "",
     result |-> EmptyDict, raising |-> {}, returns |-> EmptyDict, snap |-> NoRegistry,
     wrote |-> FALSE, during |-> 0, svc |-> "", branch |-> "", response |-> NoResponse,
     ids |-> <<>>, results |-> EmptyDict, stored |-> EmptyDict, status |-> 0,
     success |-> FALSE, frame |-> <<>>]

\* MLService.__init__: an empty fallback registry, and the production
\* pipelines whose files load.
Init ==
    /\ \E files \in [PipelineNames -> {"ok", "missing", "corrupt"}] :
          /\ production_pipelines = LoadedPipelines(files)
          /\ production_models_loaded = FlagAfterPipelineLoad(LoadedPipelines(files))
    /\ models = EmptyDict
    /\ scalers = EmptyDict
    /\ encoders = EmptyDict
    /\ feature_columns = <<>>
    /\ models_loaded = FALSE
    /\ disk \in InitDisks
    /\ ntrain = 0
    /\ trainer = Idle
    /\ last = NoCall

\* ------------------------------------------------------------------ actions

Active(t) == t.pc \notin {"idle", "returned", "raised"}

Install(st) ==
    /\ models' = st.models
    /\ scalers' = st.scalers
    /\ encoders' = st.encoders
    /\ feature_columns' = st.feature_columns
    /\ models_loaded' = st.models_loaded
    /\ disk' = st.disk

\* The record of a predict call: what it was given, what it returned, and
\* the registry it read.
CallRecord(op, request, features, ptype, env, r) ==
    [NoCall EXCEPT !.op = op, !.request = request, !.features = features, !.ptype = ptype,
                   !.path = r.path,
                   !.outcome = r.outcome, !.result = r.result,
                   !.raising = IF r.path = "production" THEN env.raising ELSE {},
                   !.returns = IF r.path = "production"
                               THEN Restrict(env.vals, DOMAIN env.vals \ env.raising)
                               ELSE EmptyDict,
                   !.frame = IF r.path = "production" /\ r.outcome = "returned"
                             THEN ProductionFrame(features) ELSE <<>>,
                   !.snap = Registry(r.st), !.wrote = r.wrote,
                   !.during = IF Active(trainer) THEN trainer.gen ELSE 0]

\* What a predict call leaves: the registry, the count of trainings, and the
\* record of the call.
PredictEffect(r, record) ==
    /\ r.trained => ntrain < MaxTrain
    /\ Install(r.st)
    /\ ntrain' = IF r.trained THEN ntrain + 1 ELSE ntrain
    /\ trainer' = IF r.wrote /\ Active(trainer) THEN [trainer EXCEPT !.others = TRUE] ELSE trainer
    /\ last' = record
    /\ UNCHANGED <<production_pipelines, production_models_loaded>>

PredictDone(features, ptype, env, r) ==
    PredictEffect(r, CallRecord("predict", features, features, ptype, env, r))

\* A call of MLService.predict(features, prediction_type).
PredictCall(featureSet, typeSet, ovalSet, mayRaise) ==
    \E features \in featureSet, ptype \in typeSet :
      \E env \in Envs(production_models_loaded, production_pipelines, Here, ovalSet, mayRaise) :
        PredictDone(features, ptype, env,
                    Predict(production_models_loaded, production_pipelines, Here, features,
                            ptype, env, ntrain + 1))

OutcomesRecord(project_data, env, r, o) ==
    [CallRecord("predict_project_outcomes", project_data, ConvertToMlFormat(project_data), "all",
                env, r)
        EXCEPT !.svc = o.svc, !.branch = o.branch, !.response = o.response]

OutcomesDone(project_data, env, r) ==
    PredictEffect(r, OutcomesRecord(project_data, env, r, PredictProjectOutcomes(project_data, r)))

\* A call of PredictionService.predict_project_outcomes(project_data).
OutcomesCall(requestSet, ovalSet, mayRaise) ==
    \E project_data \in requestSet :
      \E env \in Envs(production_models_loaded, production_pipelines, Here, ovalSet, mayRaise) :
        OutcomesDone(project_data, env,
                     Predict(production_models_loaded, production_pipelines, Here,
                             ConvertToMlFormat(project_data), "all", env, ntrain + 1))

CallPredict == PredictCall(SampleFeatures, PredictionTypes, Ovals, PipelineNames)

CallPredictProjectOutcomes == OutcomesCall(SampleRequests, Ovals, PipelineNames)

\* --------------------------------------------------------- training thread

\* A thread enters train_models (initialize_app, RetrainModelResource.post
\* without model_name).
StartTrainModels ==
    /\ ~Active(trainer)
    /\ ntrain < MaxTrain
    /\ trainer' = [Idle EXCEPT !.pc = "load_dataset", !.op = "train_models",
                               !.gen = ntrain + 1, !.pre = Registry(Here)]
    /\ ntrain' = ntrain + 1
    /\ UNCHANGED <<production_pipelines, production_models_loaded, models, scalers, encoders,
                   feature_columns, models_loaded, disk, last>>

\* The names retrain_model is called with: one of model_configs and one that
\* is not.
RetrainTargets == {"cost_overrun", "energy_prediction"}

\* A thread enters retrain_model(model_name).
StartRetrainModel ==
    /\ ~Active(trainer)
    /\ ntrain < MaxTrain
    /\ \E model_name \in RetrainTargets :
          trainer' = [Idle EXCEPT !.pc = "load_dataset", !.op = "retrain_model",
                                 !.target = model_name, !.gen = ntrain + 1,
                                 !.pre = Registry(Here)]
    /\ ntrain' = ntrain + 1
    /\ UNCHANGED <<production_pipelines, production_models_loaded, models, scalers, encoders,
                   feature_columns, models_loaded, disk, last>>

TrainerEffect(r, how) ==
    /\ Install(r.st)
    /\ trainer' = [r.t EXCEPT !.failed = @ \cup ({how} \ {"ok"}),
                              !.post = IF Finished(r.t) THEN Registry(r.st) ELSE @]
    /\ UNCHANGED <<production_pipelines, production_models_loaded, ntrain, last>>

\* The training thread takes its next step, which raises or not.
TrainerStep ==
    /\ Active(trainer)
    /\ \E how \in {"ok"} \cup StepFails(trainer, Here) :
          TrainerEffect(TrainStep(trainer, Here, how), how)

\* What RetrainModelResource.post answers for the value of the call it made:
\* `success` and the status.
RetrainResponse(value) ==
    CASE value = "True"  -> [success |-> TRUE,  status |-> 200, message |-> "retrained successfully"]
      [] value = "False" -> [success |-> FALSE, status |-> 500, message |-> "Retraining failed"]
      [] OTHER           -> [success |-> FALSE, status |-> 500, message |-> "Error during retraining"]

\* A predict call of another thread, on the converted docstring request, in
\* which no production pipeline raises.
ConcurrentPredict ==
    PredictCall({ConvertToMlFormat(FullRequest)}, {"all"}, {<<25, 0, 25, 0>>}, {})

\* The retraining specification: construction, then a training thread that
\* runs train_models / retrain_model step by step, and predict calls between
\* its steps.
NextRetrain == StartTrainModels \/ StartRetrainModel \/ TrainerStep \/ ConcurrentPredict

\* Construction that found no production pipeline file but, at most, the
\* cost pipeline's: is_production_ready() is false.
InitRetrain == Init /\ production_pipelines \subseteq {"cost_prediction"}

SpecRetrain == InitRetrain /\ [][NextRetrain]_vars

\* The serving specification: construction, then calls of predict and of
\* predict_project_outcomes, one at a time.
Next == CallPredict \/ CallPredictProjectOutcomes

Spec == Init /\ [][Next]_vars

\* ------------------------------------------------------------- properties

\* The last call was predict, or predict_project_outcomes (which calls it).
Predicted == last.op # "none"

\* The last call's predict built the production frame and called the loaded
\* pipelines.
PipelinesCalled == Predicted /\ last.path = "production" /\ ~FrameRaises(last.features)

\* C1: predict takes the production-pipeline path only when at least two of
\* the three production pipelines are loaded; with zero or one pipeline
\* loaded it uses the fallback population.
C1_ProductionPathNeedsTwo ==
    Predicted => (last.path = "production" <=> Cardinality(production_pipelines) >= 2)

\* C2: in every reachable state, is_production_ready() is true if and only if
\* at least two of the three production pipelines are loaded.
C2_ReadyIffTwoLoaded ==
    is_production_ready <=> Cardinality(production_pipelines) >= 2

\* C2's case: a service with exactly two pipelines answers ready, after it
\* served a call.
C2_ReadyWithTwo ==
    /\ Predicted
    /\ Cardinality(production_pipelines) = 2
    /\ is_production_ready

\* C3: on the production path each loaded pipeline is called independently:
\* a pipeline whose predict raises yields 0.0 for its target, every other
\* loaded pipeline's prediction is returned unchanged, and predict does not
\* raise.
C3_PipelineFaultIsolated ==
    PipelinesCalled =>
        /\ last.outcome = "returned"
        /\ DOMAIN last.result = production_pipelines
        /\ \A n \in production_pipelines :
              last.result[n] = IF n \in last.raising THEN Num(0) ELSE Num(last.returns[n])

\* C3's case: one pipeline raised, another returned 25, and predict returned
\* both.
C3_OneRaisedOneReturned ==
    /\ PipelinesCalled
    /\ last.outcome = "returned"
    /\ \E n \in last.raising : last.result[n] = Num(0)
    /\ \E n \in production_pipelines \ last.raising : last.result[n] = Num(25)

\* The service has the cost and overrun pipelines and not the timeline one,
\* and its pipelines were called.
TimelineMissing ==
    /\ PipelinesCalled
    /\ production_pipelines = {"cost_prediction", "overrun_prediction"}

C5_ProductionResultAssessed ==
    PipelinesCalled => {"risk_assessment", "confidence_score"} \subseteq DOMAIN last.result

\* C6: whenever is_production_ready() is false and the fallback population is
\* loaded with a multi-output estimator, predict(features, 'all') returns a
\* mapping with all four fallback target keys.
C6_AllFallbackTargets ==
    (/\ Predicted
     /\ last.ptype = "all"
     /\ last.outcome = "returned"
     /\ ~is_production_ready
     /\ last.snap.models_loaded
     /\ "multioutput" \in DOMAIN last.snap.models)
    => Elems(MultiOutputKeys) \subseteq DOMAIN last.result

\* C7: when ml_service.predict raises, predict_project_outcomes propagates
\* no error for any request mapping: it returns the rule-based result in
\* the documented response shape.
C7_RuleFallbackNeverRaises ==
    (last.op = "predict_project_outcomes" /\ last.outcome = "raised") =>
        /\ last.svc = "returned"
        /\ last.branch = "rule"
        /\ DOMAIN last.response.predictions =
              {"cost_overrun_probability", "predicted_delay_months", "predicted_total_cost",
               "predicted_timeline_months", "risk_category", "confidence_score"}

\* The training call that ended, with no other call writing the registry
\* while it ran.
EndedAlone == Finished(trainer) /\ ~trainer.others

FitLabels == {FitLabel(i) : i \in 1..Len(ModelConfigs)}

\* C8: if retrain_model or train_models fails at any step, the registry
\* (models, encoders, scalers, feature_columns, models_loaded) is exactly
\* what it was before the call.
C8_FailedTrainingLeavesRegistry ==
    (EndedAlone /\ trainer.pc = "raised") => trainer.post = trainer.pre

\* The last predict call went below the production branch and, its request
\* passing _feature_engineering, read the registry (last.snap).
ReadRegistry ==
    /\ Predicted
    /\ last.path = "fallback"
    /\ ~FeatureEngineeringRaises(last.features)

\* C9: a predict call that runs while a training call runs reads either the
\* complete registry of before that call or the complete registry of after
\* it, never a mix.
C9_ConcurrentPredictReadsSnapshot ==
    (/\ ReadRegistry
     /\ last.during = trainer.gen
     /\ EndedAlone
     /\ trainer.pc = "returned")
    => last.snap \in {trainer.pre, trainer.post}

\* C10 (as the code has it): a training call that ends returns True or lets
\* its exception out, never False; the exception leaves exactly when a step
\* other than the multi-output fit raised or the model name is unknown, and
\* RetrainModelResource.post then answers success false.
C10_RetrainReturnsTrueOrRaises ==
    Finished(trainer) =>
        /\ ReturnValue(trainer) \in {"True", "exception"}
        /\ ReturnValue(trainer) = "exception" <=>
              \/ trainer.failed \ {"multi"} # {}
              \/ trainer.op = "retrain_model" /\ trainer.target \notin ModelConfigNames
        /\ RetrainResponse(ReturnValue(trainer)).success <=> ReturnValue(trainer) = "True"

\* C10's case: a retrain_model call whose fit raised has ended.
C10_RefitRaised ==
    /\ Finished(trainer)
    /\ trainer.op = "retrain_model"
    /\ trainer.failed \cap FitLabels # {}

\* C10 (as stated): a retrain returns True on success, and a retrain whose
\* fit raises returns False, the exception not leaving the call.
C10_FailedRefitReturnsFalse ==
    Finished(trainer) =>
        ReturnValue(trainer) = IF trainer.failed \cap FitLabels # {} THEN "False" ELSE "True"

\* ---------------------------------------------------------- bulk prediction

\* A JSON object given as a project id: it cannot be bound in the query of
\* Project.query.filter_by(...).first() nor be a key of `results`, so the
\* iteration that meets it raises.
ObjectId == [t |-> "obj", n |-> 0, s |-> ""]

IdRaises(project_id) == project_id.t # "str"

\* The projects table: PG4001 with every column set, PG4003 with the
\* nullable columns null. Column values are request values (Num, Str, None).
Projects ==
    [id \in {Str("PG4001"), Str("PG4003")} |->
        [c \in {"project_type", "terrain", "base_cost_cr", "steel_price_index",
                "cement_price_index", "labour_wage_rs_per_day", "vendor_reliability",
                "material_availability_index", "skilled_manpower_pct",
                "regulatory_delay_months", "avg_annual_rainfall_cm",
                "demand_supply_pressure", "planned_timeline_months"} |->
            CASE c = "project_type"                -> Str("Overhead Line")
              [] c = "terrain"                     -> Str("Hilly")
              [] c = "base_cost_cr"                -> Num(150)
              [] c = "labour_wage_rs_per_day"      -> Num(450)
              [] c = "vendor_reliability"          -> Num(80)
              [] c = "material_availability_index" -> Num(75)
              [] c = "skilled_manpower_pct"        -> Num(70)
              [] c = "planned_timeline_months"     -> Num(24)
              [] id = Str("PG4003")                -> None
              [] c = "steel_price_index"           -> Num(105)
              [] c = "cement_price_index"          -> Num(110)
              [] c = "regulatory_delay_months"     -> Num(2)
              [] c = "avg_annual_rainfall_cm"      -> Num(120)
              [] OTHER                             -> Str("High")]]

\* `x or default`: the default for None and for 0.
OrDefault(v, default) == IF v = None \/ v = Num(0) THEN default ELSE v

\* str.lower().replace(' ', '-') and str.lower() on the values of the enum
\* columns.
LowerOf ==
    [x \in {"Substation", "Overhead Line", "Underground Cable", "Plains", "Hilly", "Desert",
            "Coastal", "Urban", "Mountainous", "Low", "Medium", "High"} |->
        CASE x = "Substation" -> "substation" [] x = "Overhead Line" -> "overhead line"
          [] x = "Underground Cable" -> "underground cable" [] x = "Plains" -> "plains"
          [] x = "Hilly" -> "hilly" [] x = "Desert" -> "desert" [] x = "Coastal" -> "coastal"
          [] x = "Urban" -> "urban" [] x = "Mountainous" -> "mountainous"
          [] x = "Low" -> "low" [] x = "Medium" -> "medium" [] OTHER -> "high"]

Hyphenated(x) ==
    CASE x = "overhead line" -> "overhead-line" [] x = "underground cable" -> "underground-cable"
      [] OTHER -> x

\* _project_to_prediction_format
ProjectToPredictionFormat(project) ==
    [k \in {"projectType", "terrainType", "baseEstimatedCost", "steelPriceIndex",
            "cementPriceIndex", "labourWageRate", "vendorReliabilityScore",
            "materialAvailabilityIndex", "skilledManpowerAvailability",
            "regulatoryDelayEstimate", "annualRainfall", "demandSupplyPressure",
            "historicalDelayPattern", "plannedTimelineMonths"} |->
        CASE k = "projectType" ->
                IF project.project_type = None THEN Str("substation")
                ELSE Str(Hyphenated(LowerOf[project.project_type.s]))
          [] k = "terrainType" ->
                IF project.terrain = None THEN Str("plains")
                ELSE Str(LowerOf[project.terrain.s])
          [] k = "baseEstimatedCost"   -> OrDefault(project.base_cost_cr, Num(1000))
          [] k = "steelPriceIndex"     -> OrDefault(project.steel_price_index, Num(100))
          [] k = "cementPriceIndex"    -> OrDefault(project.cement_price_index, Num(100))
          [] k = "labourWageRate"      -> OrDefault(project.labour_wage_rs_per_day, Num(400))
          [] k = "vendorReliabilityScore" -> OrDefault(project.vendor_reliability, Num(80))
          [] k = "materialAvailabilityIndex" ->
                OrDefault(project.material_availability_index, Num(80))
          [] k = "skilledManpowerAvailability" -> OrDefault(project.skilled_manpower_pct, Num(70))
          [] k = "regulatoryDelayEstimate" -> OrDefault(project.regulatory_delay_months, Num(0))
          [] k = "annualRainfall"      -> OrDefault(project.avg_annual_rainfall_cm, Num(100))
          [] k = "demandSupplyPressure" ->
                IF project.demand_supply_pressure = None THEN Str("medium")
                ELSE Str(LowerOf[project.demand_supply_pressure.s])
          [] k = "historicalDelayPattern" -> Str("medium")
          [] OTHER -> OrDefault(project.planned_timeline_months, Num(12))]

\* results[project_id] of an id without a project.
NotFound == [error |-> Str("Project not found")]

\* What bulk_predict_projects carries through its loop: the service's
\* registry, the count of trainings, `results`, the risk set on the project
\* objects (project.risk), and whether an exception has left the loop.
BulkStart(st, n) ==
    [st |-> st, ntrain |-> n, results |-> EmptyDict, stored |-> EmptyDict, raised |-> FALSE]

\* set_predictions, project.risk and results[project_id] of a found project;
\* an exception of predict_project_outcomes leaves the loop.
BulkStore(acc, project_id, r, o) ==
    IF o.svc = "raised"
    THEN [acc EXCEPT !.st = r.st, !.ntrain = IF r.trained THEN @ + 1 ELSE @, !.raised = TRUE]
    ELSE [acc EXCEPT !.st = r.st, !.ntrain = IF r.trained THEN @ + 1 ELSE @,
                     !.results = Put(@, project_id, o.response),
                     !.stored = Put(@, project_id, o.response.predictions.risk_category)]

BulkPredict(acc, project_id, project_data, r) ==
    BulkStore(acc, project_id, r, PredictProjectOutcomes(project_data, r))

\* The loop's body for a found project.
BulkStep(flag, pipelines, acc, project_id, project_data, env) ==
    BulkPredict(acc, project_id, project_data,
                Predict(flag, pipelines, acc.st, ConvertToMlFormat(project_data), "all", env,
                        acc.ntrain + 1))

\* bulk_predict_projects from its i-th id on: the set of what the loop can
\* end with, over what the environment decides in each prediction. The one
\* try block encloses the loop, and its handler raises again.
RECURSIVE BulkLoop(_, _, _, _, _, _, _)
BulkLoop(flag, pipelines, project_ids, i, acc, ovalSet, mayRaise) ==
    IF acc.raised \/ i > Len(project_ids) THEN {acc}
    ELSE IF IdRaises(project_ids[i]) THEN {[acc EXCEPT !.raised = TRUE]}
    ELSE IF project_ids[i] \notin DOMAIN Projects
    THEN BulkLoop(flag, pipelines, project_ids, i + 1,
                  [acc EXCEPT !.results = Put(@, project_ids[i], NotFound)], ovalSet, mayRaise)
    ELSE UNION {BulkLoop(flag, pipelines, project_ids, i + 1,
                         BulkStep(flag, pipelines, acc, project_ids[i],
                                  ProjectToPredictionFormat(Projects[project_ids[i]]), env),
                         ovalSet, mayRaise) :
                  env \in Envs(flag, pipelines, acc.st, ovalSet, mayRaise)}

\* The project_ids arrays of BatchPredictionResource.post: the docstring's
\* (PG4002 is not in the table), one with a JSON object among the ids, one
\* with no project found.
BulkRequests ==
    {<<Str("PG4001"), Str("PG4002"), Str("PG4003")>>,
     <<Str("PG4001"), ObjectId, Str("PG4003")>>,
     <<Str("PG4002")>>}

BulkDone(project_ids, acc) ==
    /\ acc.ntrain <= MaxTrain
    /\ Install(acc.st)
    /\ ntrain' = acc.ntrain
    /\ last' = [NoCall EXCEPT !.op = "bulk_predict_projects", !.ids = project_ids,
                              !.results = acc.results, !.stored = acc.stored,
                              !.svc = IF acc.raised THEN "raised" ELSE "returned"]
    /\ UNCHANGED <<production_pipelines, production_models_loaded, trainer>>

\* A call of PredictionService.bulk_predict_projects(project_ids).
CallBulkPredict ==
    \E project_ids \in BulkRequests :
      \E acc \in BulkLoop(production_models_loaded, production_pipelines, project_ids, 1,
                          BulkStart(Here, ntrain), {<<25, 0, 25, 0>>}, {"cost_prediction"}) :
        BulkDone(project_ids, acc)

NextBatch == CallBulkPredict

\* The batch specification: construction, then calls of
\* bulk_predict_projects, one at a time.
SpecBatch == Init /\ [][NextBatch]_vars

\* The last call was bulk_predict_projects.
BulkCalled == last.op = "bulk_predict_projects"

\* C11: bulk_predict_projects returns a mapping with an entry for every
\* requested id, the entry of an id without a project being the error entry;
\* a failure on one id does not end the batch and no exception leaves the
\* method.
C11_BatchIsolatesFailures ==
    BulkCalled =>
        /\ last.svc = "returned"
        /\ DOMAIN last.results = Elems(last.ids)
        /\ \A id \in Elems(last.ids) :
              id \notin DOMAIN Projects => last.results[id] = NotFound

\* ------------------------------------------------------- feature normalizer

\* The fields of the vector _convert_to_ml_format builds: the model-side
\* names of field_mapping.
CanonicalFields == {FieldMapping[i][2] : i \in 1..Len(FieldMapping)}

\* The last call was predict_project_outcomes, which normalizes its request.
Normalized == last.op = "predict_project_outcomes"

\* C12: for every request mapping, the empty one included, the vector
\* _convert_to_ml_format returns has every canonical field populated (the
\* empty request giving the all-defaults vector).
C12_NormalizedVectorComplete ==
    Normalized => CanonicalFields \subseteq DOMAIN last.features

\* C13: normalization is idempotent: _convert_to_ml_format applied to the
\* vector it returned (canonical names, canonical values) returns that vector.
C13_NormalizationIdempotent ==
    Normalized => ConvertToMlFormat(last.features) = last.features

\* ------------------------------------------------------------ the assessors

\* required_features of _calculate_production_confidence.
ProductionRequiredFeatures ==
    {"projectType", "state", "baseCost", "plannedTimeline", "vendorReliability",
     "materialAvailability"}

\* A comparison of a value that is no number with a number raises TypeError.
ProductionConfidenceRaises(features) ==
    \E k \in {"vendorReliability", "materialAvailability", "envRisk", "historicalDelay"} :
        k \in DOMAIN features /\ ~IsNum(features[k])

\* The truth value of features.get(k): false for an absent key, None, 0, ''.
Truthy(features, k) ==
    /\ k \in DOMAIN features
    /\ features[k] \notin {None, Num(0), Str("")}

\* The points of a 0-1 index (in 1/100) in _calculate_production_confidence.
IndexPoints(x) == IF x >= 80 THEN 15 ELSE IF x >= 60 THEN 10 ELSE IF x >= 40 THEN 5 ELSE 0

\* _calculate_production_confidence, in 1/10 point: round(..., 1) of
\* 40 * completeness / 6 + quality + geographic points, capped at 100.
CalculateProductionConfidence(features) ==
    LET completeness_score ==
            Cardinality({k \in ProductionRequiredFeatures : Supplied(features, k)})
        env_risk   == Get(features, "envRisk", Num(30)).n
        hist_delay == Get(features, "historicalDelay", Num(1)).n
        quality_score ==
            IndexPoints(Get(features, "vendorReliability", Num(0)).n)
            + IndexPoints(Get(features, "materialAvailability", Num(0)).n)
            + (IF env_risk <= 30 THEN 10 ELSE IF env_risk <= 50 THEN 5 ELSE 0)
            + (IF hist_delay <= 2 THEN 10 ELSE IF hist_delay <= 5 THEN 5 ELSE 0)
        geo == IF Truthy(features, "latitude") /\ Truthy(features, "longitude") THEN 5 ELSE 0
    IN  Min(1000, (400 * completeness_score + 3) \div Cardinality(ProductionRequiredFeatures)
                  + 10 * (quality_score + geo))

\* A key that a mapping does not have.
Absent == [t |-> "absent", n |-> 0, s |-> ""]

Given(choice) == Restrict(choice, {k \in DOMAIN choice : choice[k] # Absent})

\* The mappings _calculate_confidence is applied to.
ConfidenceInputs ==
    {Given([Base_Cost_Cr |-> b, Vendor_Reliability |-> v, Material_Availability_Index |-> m,
            Skilled_Manpower_pct |-> sk, Planned_Timeline_months |-> IF sk = Absent THEN sk ELSE Num(24),
            Historical_Delay_Count |-> h]) :
        b \in {Absent, None, Num(150)}, v \in {Absent, None, Num(90)},
        m \in {Absent, Num(90)}, sk \in {Absent, Num(70)},
        h \in {Absent, Num(1), Num(3)}}

\* The mappings _calculate_production_confidence is applied to.
ProductionConfidenceInputs ==
    {Given([projectType |-> t, state |-> t, baseCost |-> b, plannedTimeline |-> b,
            vendorReliability |-> v, materialAvailability |-> m, envRisk |-> e,
            historicalDelay |-> h, latitude |-> g,
            longitude |-> IF g = Absent THEN g ELSE Num(728777)]) :
        t \in {Absent, Str("Overhead Line")}, b \in {Absent, Num(150)},
        v \in {Absent, None, Num(80)}, m \in {Absent, Num(60)},
        e \in {Absent, Num(60)}, h \in {Absent, Num(6)},
        g \in {Absent, Num(0), Num(190760)}}

\* A call of MLService._calculate_confidence(features).
CallCalculateConfidence ==
    \E features \in ConfidenceInputs :
        /\ last' = [NoCall EXCEPT
                      !.op = "_calculate_confidence", !.features = features,
                      !.outcome = IF ConfidenceRaises(features) THEN "raised" ELSE "returned",
                      !.result = IF ConfidenceRaises(features) THEN EmptyDict
                                 ELSE [k \in {"confidence_score"} |->
                                         Num(10 * CalculateConfidence(features))]]
        /\ UNCHANGED <<production_pipelines, production_models_loaded, models, scalers,
                       encoders, feature_columns, models_loaded, disk, ntrain, trainer>>

\* A call of MLService._calculate_production_confidence(features).
CallCalculateProductionConfidence ==
    \E features \in ProductionConfidenceInputs :
        /\ last' = [NoCall EXCEPT
                      !.op = "_calculate_production_confidence", !.features = features,
                      !.outcome = IF ProductionConfidenceRaises(features) THEN "raised"
                                  ELSE "returned",
                      !.result = IF ProductionConfidenceRaises(features) THEN EmptyDict
                                 ELSE [k \in {"confidence_score"} |->
                                         Num(CalculateProductionConfidence(features))]]
        /\ UNCHANGED <<production_pipelines, production_models_loaded, models, scalers,
                       encoders, feature_columns, models_loaded, disk, ntrain, trainer>>

\* The prediction mappings _assess_risk is applied to.
RiskInputs ==
    {Given([cost_overrun_pct |-> c, delay_months |-> d]) :
        c \in {Absent} \cup {Num(x) : x \in {-5, 0, 5, 6, 10, 11, 20, 21, 30}},
        d \in {Absent} \cup {Num(x) : x \in {0, 1, 2, 3, 4, 6, 7}}}

\* A call of MLService._assess_risk(predictions).
CallAssessRisk ==
    \E predictions \in RiskInputs :
        /\ last' = [NoCall EXCEPT
                      !.op = "_assess_risk", !.features = predictions, !.outcome = "returned",
                      !.result = [k \in {"risk_assessment", "risk_score"} |->
                                    IF k = "risk_score" THEN Num(RiskScore(predictions))
                                    ELSE Str(AssessRisk(predictions))]]
        /\ UNCHANGED <<production_pipelines, production_models_loaded, models, scalers,
                       encoders, feature_columns, models_loaded, disk, ntrain, trainer>>

\* The rules of _assess_production_risk that a call triggers, in the order of
\* the code, as <<points, factor>>. The index values are in 1/100; the
\* timeline is compared with 1.5 and 1.2 times the planned one.
ProductionRiskRules(predictions, features) ==
    LET cost_pred     == Get(predictions, "cost_prediction", Num(0)).n
        overrun_pred  == Get(predictions, "overrun_prediction", Num(0)).n
        timeline_pred == Get(predictions, "timeline_prediction", Num(0)).n
        planned       == Get(features, "plannedTimeline", Num(24)).n
    IN  (IF cost_pred > 200 THEN <<(<<3, "High cost prediction">>)>>
         ELSE IF cost_pred > 100 THEN <<(<<2, "Medium cost prediction">>)>> ELSE <<>>)
        \o (IF overrun_pred > 25 THEN <<(<<3, "High overrun risk">>)>>
            ELSE IF overrun_pred > 10 THEN <<(<<2, "Medium overrun risk">>)>> ELSE <<>>)
        \o (IF 10 * timeline_pred > 15 * planned
            THEN <<(<<3, "Significant timeline extension">>)>>
            ELSE IF 10 * timeline_pred > 12 * planned
            THEN <<(<<2, "Moderate timeline extension">>)>> ELSE <<>>)
        \o (IF Get(features, "envRisk", Num(30)).n > 70
            THEN <<(<<2, "High environmental risk">>)>> ELSE <<>>)
        \o (IF Get(features, "vendorReliability", Num(80)).n < 60
            THEN <<(<<2, "Low vendor reliability">>)>> ELSE <<>>)

\* A variant of the level of _assess_production_risk that is Critical from 5.
ProductionRiskLevelFromFive(risk_score) ==
    IF risk_score >= 5 THEN "Critical"
    ELSE IF risk_score >= 4 THEN "High" ELSE IF risk_score >= 2 THEN "Medium" ELSE "Low"

ProductionRiskLevel(risk_score) ==
    IF risk_score >= 6 THEN "Critical"
    ELSE IF risk_score >= 4 THEN "High" ELSE IF risk_score >= 2 THEN "Medium" ELSE "Low"

RECURSIVE SumPoints(_, _)
SumPoints(rules, i) == IF i > Len(rules) THEN 0 ELSE rules[i][1] + SumPoints(rules, i + 1)

\* _assess_production_risk, from the rules triggered.
AssessProductionRisk(rules) ==
    [level |-> Str(ProductionRiskLevel(SumPoints(rules, 1))),
     score |-> Num(SumPoints(rules, 1)),
     factors |-> [i \in 1..Len(rules) |-> rules[i][2]]]

\* A call's arguments: the predictions c, o, t of the three pipelines, and
\* the features plannedTimeline p, envRisk e, vendorReliability v.
RiskCase(c, o, t, p, e, v) ==
    [predictions |-> Given([cost_prediction |-> c, overrun_prediction |-> o,
                            timeline_prediction |-> t]),
     features |-> Given([plannedTimeline |-> p, envRisk |-> e, vendorReliability |-> v])]

\* The arguments _assess_production_risk is applied to: every combination of
\* a rule triggered at its upper tier or not, and each input swept over its
\* thresholds alone.
ProductionRiskInputs ==
    {RiskCase(c, o, t, Absent, e, v) :
        c \in {Absent, Num(201)}, o \in {Absent, Num(26)}, t \in {Absent, Num(37)},
        e \in {Absent, Num(71)}, v \in {Absent, Num(59)}}
    \cup {RiskCase(Num(c), Absent, Absent, Absent, Absent, Absent) : c \in {100, 101, 200}}
    \cup {RiskCase(Absent, Num(o), Absent, Absent, Absent, Absent) : o \in {10, 11, 25}}
    \cup {RiskCase(Absent, Absent, Num(t), p, Absent, Absent) :
            t \in {28, 29, 36, 37}, p \in {Absent, Num(20)}}
    \cup {RiskCase(Num(101), Num(11), Absent, Absent, Num(e), Num(v)) :
            e \in {70, 71}, v \in {59, 60}}

\* A call of MLService._assess_production_risk(predictions, features).
CallAssessProductionRisk ==
    \E args \in ProductionRiskInputs :
        /\ last' = [NoCall EXCEPT
                      !.op = "_assess_production_risk", !.request = args.predictions,
                      !.features = args.features, !.outcome = "returned",
                      !.result = AssessProductionRisk(
                                     ProductionRiskRules(args.predictions, args.features))]
        /\ UNCHANGED <<production_pipelines, production_models_loaded, models, scalers,
                       encoders, feature_columns, models_loaded, disk, ntrain, trainer>>

NextAssess ==
    \/ CallCalculateConfidence
    \/ CallCalculateProductionConfidence
    \/ CallAssessRisk
    \/ CallAssessProductionRisk

\* A service constructed without pipeline files and without MODEL_DIR.
InitAssess == Init /\ production_pipelines = {} /\ disk = NoDisk

\* The assessors' specification: calls of the assessors of MLService, which
\* read their argument only.
SpecAssess == InitAssess /\ [][NextAssess]_vars

\* The last call was one of the two confidence assessors, and it returned.
ConfidenceReturned ==
    /\ last.op \in {"_calculate_confidence", "_calculate_production_confidence"}
    /\ last.outcome = "returned"

\* C14: the confidence score either assessor returns (in 1/10 point) lies in
\* [0, 100], and for the empty mapping it is the bonus points alone: 5 for
\* _calculate_confidence, 20 for _calculate_production_confidence.
C14_ConfidenceInRange ==
    ConfidenceReturned =>
        /\ last.result["confidence_score"].n \in 0..1000
        /\ last.features = EmptyDict =>
              last.result["confidence_score"].n =
                  IF last.op = "_calculate_confidence" THEN 50 ELSE 200

\* C14's case: _calculate_confidence returned for a mapping with every key
\* feature and every bonus, where the cap applies.
C14_CappedAtHundred ==
    /\ ConfidenceReturned
    /\ last.op = "_calculate_confidence"
    /\ \A k \in KeyFeatures : Supplied(last.features, k)
    /\ Get(last.features, "Vendor_Reliability", Num(0)).n > 80
    /\ last.result["confidence_score"].n = 1000

\* The order of the risk levels.
LevelRank == [l \in {"Low", "Medium", "High"} |-> CASE l = "Low" -> 1 [] l = "Medium" -> 2 [] OTHER -> 3]

RiskAssessed == last.op = "_assess_risk"

\* C15: _assess_risk is monotonic in cost_overrun_pct: of two calls with the
\* same delay, the one with the larger overrun has no smaller score and no
\* lower level.
C15_RiskMonotonicInOverrun ==
    [][(/\ RiskAssessed
        /\ RiskAssessed'
        /\ Get(last.features, "delay_months", Num(0)) = Get(last'.features, "delay_months", Num(0))
        /\ Get(last.features, "cost_overrun_pct", Num(0)).n
             <= Get(last'.features, "cost_overrun_pct", Num(0)).n)
       => /\ last.result["risk_score"].n <= last'.result["risk_score"].n
          /\ LevelRank[last.result["risk_assessment"].s]
               <= LevelRank[last'.result["risk_assessment"].s]]_vars

\* C15's case: an overrun above 20 with a delay above 3 was assessed High.
C15_HighAssessed ==
    /\ RiskAssessed
    /\ Get(last.features, "cost_overrun_pct", Num(0)).n > 20
    /\ Get(last.features, "delay_months", Num(0)).n = 4
    /\ last.result["risk_assessment"] = Str("High")

\* ------------------------------------------------- PredictionResource.post

\* A variant of the required-field check that looks at the first three
\* required fields only.
MissingFieldsOfThree(project_data) ==
    {f \in {"projectType", "terrainType", "baseEstimatedCost"} : f \notin DOMAIN project_data}

\* missing_fields of post.
MissingFields(project_data) == {f \in RequiredFields : f \notin DOMAIN project_data}

\* post answers without calling the service: no JSON (an empty object is
\* false in `not request.json`), or a required field is missing.
PostRejects(project_data) == project_data = EmptyDict \/ MissingFields(project_data) # {}

\* The JSON bodies posted: the docstring's request, the request without each
\* one of the required fields, with the required fields only, with a null
\* required field, with a project type and a delay pattern that the
\* mappings of _convert_to_ml_format do not have, and the empty object.
PostRequests ==
    {FullRequest, Restrict(FullRequest, RequiredFields), EmptyDict,
     Put(FullRequest, "vendorReliabilityScore", None),
     [FullRequest EXCEPT !["projectType"] = Str("transmission"),
                         !["historicalDelayPattern"] = Str("severe")],
     Put(FullRequest, "historicalDelayPattern", Str("low")),
     Put(FullRequest, "historicalDelayPattern", Str("high"))}
    \cup {Restrict(FullRequest, DOMAIN FullRequest \ {f}) : f \in RequiredFields}

\* post's answer after the service was called: 200, or 500 from the handler
\* of `except Exception`.
PostServed(record) ==
    [record EXCEPT !.op = "post",
                   !.status = IF record.svc = "raised" THEN 500 ELSE 200,
                   !.success = record.svc # "raised"]

PostDone(project_data, env, r) ==
    PredictEffect(r, PostServed(OutcomesRecord(project_data, env, r,
                                               PredictProjectOutcomes(project_data, r))))

\* A request to PredictionResource.post with the JSON body project_data,
\* served by the resource's prediction service.
CallPost ==
    \E project_data \in PostRequests :
        IF PostRejects(project_data)
        THEN /\ last' = [NoCall EXCEPT !.op = "post", !.request = project_data, !.status = 400]
             /\ UNCHANGED <<production_pipelines, production_models_loaded, models, scalers,
                            encoders, feature_columns, models_loaded, disk, ntrain, trainer>>
        ELSE \E env \in Envs(production_models_loaded, production_pipelines, Here,
                             {<<25, 0, 25, 0>>}, {}) :
                PostDone(project_data, env,
                         Predict(production_models_loaded, production_pipelines, Here,
                                 ConvertToMlFormat(project_data), "all", env, ntrain + 1))

NextApi == CallPost

\* The endpoint specification: construction, then requests to
\* PredictionResource.post, one at a time.
SpecApi == Init /\ [][NextApi]_vars

Posted == last.op = "post"

\* C16: post answers 400 with success false, without calling the prediction
\* service, whenever one of the seven required fields is missing from the
\* body; a missing required field is never defaulted.
C16_MissingRequiredRejected ==
    (Posted /\ RequiredFields \ DOMAIN last.request # {}) =>
        /\ last.status = 400
        /\ ~last.success
        /\ last.svc = ""
        /\ last.features = EmptyDict

\* C16's case: the docstring's request without labourWageRate was answered.
C16_WageMissingAnswered ==
    /\ Posted
    /\ last.request = Restrict(FullRequest, DOMAIN FullRequest \ {"labourWageRate"})
    /\ last.status = 400

\* ---------------------------------------------------------- cost per month

\* C17: a predict call on the production path whose planned timeline is 0 or
\* absent returns: computing the cost per month does not raise.
C17_ZeroTimelineDoesNotRaise ==
    (/\ last.op = "predict"
     /\ last.path = "production"
     /\ Get(last.features, "plannedTimeline", Num(0)) = Num(0))
    => last.outcome = "returned"

\* ------------------------------------------------------ response's numbers

\* predict_project_outcomes returned a response.
Responded == last.op = "predict_project_outcomes" /\ last.svc = "returned"

\* C18: every response of predict_project_outcomes has a cost overrun
\* probability in [0, 100], a delay of at least 0, a total cost of at least
\* the request's base estimated cost, and a timeline of at least 1 month
\* (numbers in 1/100, the total cost in 1/10000).
C18_ResponseWithinBounds ==
    Responded =>
        /\ last.response.predictions.cost_overrun_probability.n \in 0..10000
        /\ last.response.predictions.predicted_delay_months.n >= 0
        /\ Supplied(last.request, "baseEstimatedCost") =>
              last.response.predictions.predicted_total_cost.n
                  >= 10000 * last.request["baseEstimatedCost"].n
        /\ last.response.predictions.predicted_timeline_months.n >= 100

\* ------------------------------------------------------------------ loading

\* C19: a load_models call (made by a predict call on a service whose
\* registry is not loaded) that meets a corrupt file in MODEL_DIR skips it:
\* it completes, and the registry holds every estimator, the scaler, the
\* encoders and the feature columns that the readable files hold.
C19_CorruptArtifactSkipped ==
    [][(/\ ~models_loaded
        /\ disk.corrupt # {}
        /\ last'.op = "predict"
        /\ last'.path = "fallback")
       => /\ models_loaded'
          /\ \A n \in DOMAIN disk.models : n \in DOMAIN models' /\ models'[n] = disk.models[n]
          /\ disk.scalers # <<>> => scalers' = disk.scalers[1]
          /\ disk.encoders # <<>> => encoders' = disk.encoders[1]
          /\ disk.feature_columns # <<>> => feature_columns' = disk.feature_columns[1]]_vars

\* C20: a population is marked loaded only with its minimum present:
\* models_loaded only if the registry holds at least one per-target
\* estimator, production_models_loaded only if at least two of the three
\* pipelines are loaded.
C20_LoadedFlagsNeedMinimum ==
    /\ models_loaded => DOMAIN models \cap ModelConfigNames # {}
    /\ production_models_loaded => Cardinality(production_pipelines) >= 2

\* ----------------------------------------------------- predict's footprint

\* C21: a predict call leaves the registry as it found it: models, encoders,
\* scalers, feature_columns, production_pipelines and the two loaded flags.
C21_PredictLeavesRegistry ==
    [][last'.op = "predict" =>
          UNCHANGED <<models, encoders, scalers, feature_columns, production_pipelines,
                      models_loaded, production_models_loaded>>]_vars

\* ----------------------------------------------------------- full retrain

\* C22: a train_models call that started on a registry holding encoders and
\* a scaler, ran alone and returned, leaves encoders and a scaler that were
\* all fitted in that call.
C22_FullRetrainRefitsShared ==
    (/\ EndedAlone
     /\ trainer.op = "train_models"
     /\ trainer.pc = "returned"
     /\ DOMAIN trainer.pre.encoders # {}
     /\ "scaler" \in DOMAIN trainer.pre.scalers)
    => /\ \A c \in DOMAIN trainer.post.encoders : trainer.post.encoders[c] = trainer.gen
       /\ trainer.post.scalers["scaler"] = trainer.gen

\* ------------------------------------------------------- the risk assessors

\* The points the claims give a value: 3, 2, 1 above the thresholds a > b > c
\* (strictly), else 0.
TieredPoints(x, a, b, c) == IF x > a THEN 3 ELSE IF x > b THEN 2 ELSE IF x > c THEN 1 ELSE 0

\* The score C23 states for the predictions of the last _assess_risk call, a
\* missing value counting as 0.
StatedBasicScore ==
    TieredPoints(IF "cost_overrun_pct" \in DOMAIN last.features
                 THEN last.features["cost_overrun_pct"].n ELSE 0, 20, 10, 5)
    + TieredPoints(IF "delay_months" \in DOMAIN last.features
                   THEN last.features["delay_months"].n ELSE 0, 6, 3, 1)

\* C23: _assess_risk scores cost_overrun_pct 3/2/1/0 at >20 / >10 / >5 /
\* otherwise and delay_months 3/2/1/0 at >6 / >3 / >1 / otherwise, a missing
\* value as 0, and returns High from 5, Medium from 3, else Low.
C23_BasicRiskTable ==
    RiskAssessed =>
        /\ last.result["risk_score"].n = StatedBasicScore
        /\ last.result["risk_assessment"].s =
              (IF StatedBasicScore >= 5 THEN "High"
               ELSE IF StatedBasicScore >= 3 THEN "Medium" ELSE "Low")

\* C23's case: an overrun of exactly 20 with a delay of exactly 6 (2 + 2
\* points, the comparisons being strict) was assessed Medium.
C23_BoundaryAssessedMedium ==
    /\ RiskAssessed
    /\ Get(last.features, "cost_overrun_pct", Num(0)) = Num(20)
    /\ Get(last.features, "delay_months", Num(0)) = Num(6)
    /\ last.result["risk_score"].n = 4
    /\ last.result["risk_assessment"] = Str("Medium")

\* The last call was _assess_production_risk.
ProductionRiskAssessed == last.op = "_assess_production_risk"

\* The arguments of the last _assess_production_risk call, with their
\* defaults.
StatedCost == Get(last.request, "cost_prediction", Num(0)).n

StatedOverrun == Get(last.request, "overrun_prediction", Num(0)).n

StatedTimeline == Get(last.request, "timeline_prediction", Num(0)).n

StatedPlanned == Get(last.features, "plannedTimeline", Num(24)).n

\* The rules C24 states, as the set of those the last call triggers, and
\* their points.
StatedRules ==
    {r \in {"cost", "overrun", "timeline", "environment", "vendor"} :
        CASE r = "cost"        -> StatedCost > 100
          [] r = "overrun"     -> StatedOverrun > 10
          [] r = "timeline"    -> 10 * StatedTimeline > 12 * StatedPlanned
          [] r = "environment" -> Get(last.features, "envRisk", Num(30)).n > 70
          [] OTHER             -> Get(last.features, "vendorReliability", Num(80)).n < 60}

StatedProductionScore ==
    (IF StatedCost > 200 THEN 3 ELSE IF StatedCost > 100 THEN 2 ELSE 0)
    + (IF StatedOverrun > 25 THEN 3 ELSE IF StatedOverrun > 10 THEN 2 ELSE 0)
    + (IF 10 * StatedTimeline > 15 * StatedPlanned THEN 3
       ELSE IF 10 * StatedTimeline > 12 * StatedPlanned THEN 2 ELSE 0)
    + (IF "environment" \in StatedRules THEN 2 ELSE 0)
    + (IF "vendor" \in StatedRules THEN 2 ELSE 0)

\* C24: _assess_production_risk adds 3/2 for a cost prediction above 200/100,
\* 3/2 for an overrun above 25/10, 3/2 for a timeline above 1.5/1.2 times the
\* planned one, 2 for an environmental risk above 0.7 and 2 for a vendor
\* reliability below 0.6; the level is Critical from 6, High from 4, Medium
\* from 2, else Low; the factor list has one entry per triggered rule, so it
\* is non-empty exactly when the score is positive.
C24_ProductionRiskTable ==
    ProductionRiskAssessed =>
        /\ last.result.score.n = StatedProductionScore
        /\ last.result.level.s =
              (IF StatedProductionScore >= 6 THEN "Critical"
               ELSE IF StatedProductionScore >= 4 THEN "High"
               ELSE IF StatedProductionScore >= 2 THEN "Medium" ELSE "Low")
        /\ Len(last.result.factors) = Cardinality(StatedRules)
        /\ last.result.score.n > 0 <=> last.result.factors # <<>>

\* C24's case: a cost prediction above 200 and a vendor reliability below 0.6
\* alone (3 + 2 points) were assessed High with two factors.
C24_FivePointsAssessedHigh ==
    /\ ProductionRiskAssessed
    /\ StatedRules = {"cost", "vendor"}
    /\ last.result.score.n = 5
    /\ last.result.level = Str("High")
    /\ last.result.factors = <<"High cost prediction", "Low vendor reliability">>

\* The last call was _calculate_production_confidence, and it returned.
ProductionConfidenceReturned ==
    ConfidenceReturned /\ last.op = "_calculate_production_confidence"

\* C25: the production confidence (in 1/10 point) is min(100, 40 x supplied
\* required fields / 6 + quality points + geo bonus), the 5-point geo bonus
\* being granted whenever latitude and longitude are both supplied, whatever
\* their values.
C25_GeoBonusForSuppliedCoordinates ==
    ProductionConfidenceReturned =>
        last.result["confidence_score"].n =
            Min(1000,
                (400 * Cardinality({k \in ProductionRequiredFeatures : Supplied(last.features, k)})
                 + 3) \div 6
                + 10 * (IndexPoints(Get(last.features, "vendorReliability", Num(0)).n)
                        + IndexPoints(Get(last.features, "materialAvailability", Num(0)).n)
                        + (IF Get(last.features, "envRisk", Num(30)).n <= 30 THEN 10
                           ELSE IF Get(last.features, "envRisk", Num(30)).n <= 50 THEN 5 ELSE 0)
                        + (IF Get(last.features, "historicalDelay", Num(1)).n <= 2 THEN 10
                           ELSE IF Get(last.features, "historicalDelay", Num(1)).n <= 5 THEN 5
                           ELSE 0)
                        + (IF Supplied(last.features, "latitude")
                              /\ Supplied(last.features, "longitude") THEN 5 ELSE 0)))

\* -------------------------------------------------------- production frame

\* C26: the frame a predict call passes to the production pipelines has the
\* 20 columns of pipeline_feature_names, in that order, whatever keys the
\* input mapping has.
C26_FrameHasPipelineFeatureNames ==
    PipelinesCalled =>
        [i \in 1..Len(last.frame) |-> last.frame[i][1]] = PipelineFeatureNames

\* C26's case: the pipelines were called on the frame of the empty mapping.
C26_EmptyMappingFramed ==
    /\ PipelinesCalled
    /\ last.op = "predict"
    /\ last.features = EmptyDict
    /\ Len(last.frame) = 20

\* ------------------------------------------- normalizer's categorical values

\* A request was posted and normalized (post did not reject it).
PostNormalized == Posted /\ last.status # 400

\* The request's value for field k is a string that the normalizer's mapping
\* for k does not have.
UnknownCategory(k, known) ==
    /\ k \in DOMAIN last.request
    /\ last.request[k].t = "str"
    /\ last.request[k].s \notin known

\* C27: an unknown project type, terrain or demand/supply pressure is in the
\* normalized vector unchanged.
C27_UnknownCategoryUnchanged ==
    PostNormalized =>
        /\ UnknownCategory("projectType", {"substation", "overhead-line", "underground-cable"})
              => last.features["Project_Type"] = last.request["projectType"]
        /\ UnknownCategory("terrainType",
                           {"plains", "hilly", "desert", "coastal", "urban", "mountainous"})
              => last.features["Terrain"] = last.request["terrainType"]
        /\ UnknownCategory("demandSupplyPressure", {"low", "medium", "high"})
              => last.features["Demand_Supply_Pressure"] = last.request["demandSupplyPressure"]

\* C28: the normalized vector's Historical_Delay_Count is 1, 3, 5 for the
\* delay pattern low, medium, high, and 3 for every other pattern and for a
\* request without one.
C28_DelayPatternCounts ==
    PostNormalized =>
        last.features["Historical_Delay_Count"] =
            Num(CASE Get(last.request, "historicalDelayPattern", None) = Str("low")    -> 1
                  [] Get(last.request, "historicalDelayPattern", None) = Str("medium") -> 3
                  [] Get(last.request, "historicalDelayPattern", None) = Str("high")   -> 5
                  [] OTHER                                                            -> 3)

\* C28's case: a request with a pattern the mapping does not have was
\* normalized to the count 3.
C28_UnrecognizedPatternIsThree ==
    /\ PostNormalized
    /\ Get(last.request, "historicalDelayPattern", None) = Str("severe")
    /\ last.features["Historical_Delay_Count"] = Num(3)

\* ------------------------------------ the service over the production path

\* predict_project_outcomes answered, and its predict call took the
\* production path.
ProductionResponded == Responded /\ last.path = "production"

\* The frame is the all-defaults frame and the response has the formatter's
\* defaults: overrun 0, delay 0, risk 'Medium', confidence 75.
DefaultsAnswered ==
    /\ last.frame = ProductionFrame(EmptyDict)
    /\ last.response.predictions.cost_overrun_probability = Num(0)
    /\ last.response.predictions.predicted_delay_months = Num(0)
    /\ last.response.predictions.risk_category = Str("Medium")
    /\ last.response.predictions.confidence_score = Num(75)

\* C29 (as stated): whenever predict_project_outcomes answers after its
\* predict call took the production path, the pipelines were given the
\* all-defaults frame and the response has cost_overrun_probability 0,
\* predicted_delay_months 0, risk_category 'Medium' and confidence_score 75.
C29_ProductionResponseFixed == ProductionResponded => DefaultsAnswered

\* C29 (amended): the same, for the responses built from the pipelines'
\* predictions. A request whose recommendation or risk-factor analysis
\* raises is answered by _fallback_predictions from the request's values.
C29_MlResponseIgnoresFeatures ==
    (ProductionResponded /\ last.branch = "ml") => DefaultsAnswered

\* C29's case: the full request was answered from pipelines that returned
\* non-zero values.
C29_FullRequestAnswered ==
    /\ ProductionResponded
    /\ last.branch = "ml"
    /\ last.request = FullRequest
    /\ \E n \in DOMAIN last.returns : last.returns[n] # 0

\* ------------------------------------ fallback path, per-target estimators

\* predict(features, 'all') returned on the fallback path from a registry
\* that has no multi-output estimator.
PerTargetAnswered ==
    /\ Predicted
    /\ last.path = "fallback"
    /\ last.outcome = "returned"
    /\ last.ptype = "all"
    /\ "multioutput" \notin DOMAIN last.snap.models

\* C30: on the fallback path with no multi-output estimator,
\* predict(features, 'all') returns one entry per configured per-target
\* estimator that is present, keyed by model name, none for an absent one,
\* and (beside confidence_score) a risk_assessment that is 'Low'.
C30_PerTargetKeysAndLowRisk ==
    PerTargetAnswered =>
        /\ DOMAIN last.result =
               (ModelConfigNames \cap DOMAIN last.snap.models)
                   \cup {"risk_assessment", "confidence_score"}
        /\ last.result["risk_assessment"] = Str("Low")

\* C30's case: predict ran while the registry had the cost_overrun estimator
\* and not yet the timeline_prediction one, and the estimator returned 25.
C30_AbsentEstimatorSkipped ==
    /\ PerTargetAnswered
    /\ "cost_overrun" \in DOMAIN last.result
    /\ last.result["cost_overrun"] = Num(25)
    /\ "timeline_prediction" \notin DOMAIN last.snap.models
====
